---- MODULE Spec2Model ----
(***************************************************************************)
(* cells-renderer: the painter decorator (src/util/painter.rs), the image  *)
(* (src/image.rs), and the host (src/app/app_impl.rs): its fixed-rate      *)
(* update scheduler, its start-up (src/app/mod.rs), its coordinate         *)
(* transform, the bars and indices of its overlay grid and its redraw.     *)
(*                                                                         *)
(* Option values: an absent key or ink is the string None, an absent cell  *)
(* position is the empty tuple NoPos; a cell is <<x, y>>.  A key event is  *)
(* <<state, key>>, a mouse event <<state, button, pos>>.                   *)
(*                                                                         *)
(* event is the last event delivered, <<method, args, entry>>: entry is    *)
(* what the handler read on entry (the elapsed time of a poll, the pointer *)
(* cell before a cursor move).  calls is the sequence of calls the last    *)
(* handler made on what it wraps: <<"paint", x, y, ink>> for a call of the *)
(* paint function, <<"forward", method, args>> for a call of the wrapped   *)
(* world, <<"update_wgpu_texture">> for a copy of the image to the         *)
(* texture, <<"draw_indexed", range>> and <<"present">> for the overlay's  *)
(* draw call and the presentation of a frame.  The entry of a redraw is    *)
(* <<dt, acquired>>: the elapsed time and whether the surface gave a       *)
(* frame.  app_state is Ready, Running, or Aborted after a panic.          *)
(*                                                                         *)
(* The f32 and f64 values of the coordinate transform are exact rationals  *)
(* <<numerator, denominator>> in lowest terms with a positive denominator. *)
(* buf holds the bytes of the image in the image specification and is the  *)
(* empty sequence where the bytes are not followed.  since_release is     *)
(* <<polled>> during a pause, polled telling whether a poll has arrived    *)
(* in it, and <<at, count>> once the play key has released a pause that    *)
(* polls arrived in: the instant of the release and the timer-driven       *)
(* advances made since; it is followed in the release specification only.  *)
(* world holds cells and cells_temp of the Life example and is NoWorld     *)
(* where the cells of the wrapped world are not followed.                  *)
(***************************************************************************)
EXTENDS Integers, Sequences, FiniteSets, TLC

VARIABLES
    \* WithPainter
    desc, mouse_pos_prev, mouse_pos, is_painting, brush_size,
    \* WorldImage
    width, height,
    \* the world the painter and the host wrap
    world,
    \* App / AppImpl
    app_state, configs, update_interval, last_update, paused, grid_enabled,
    should_update_texture, window_size, bounds, cursor_translated,
    grid_vertices, grid_indices, buf,
    \* environment and history
    now, last_poll, ever_paused, advances, burst, since_release, event,
    calls

vars == <<desc, mouse_pos_prev, mouse_pos, is_painting, brush_size,
          width, height, world,
          app_state, configs, update_interval, last_update, paused,
          grid_enabled, should_update_texture,
          window_size, bounds, cursor_translated, grid_vertices, grid_indices,
          buf,
          now, last_poll, ever_paused, advances, burst, since_release,
          event, calls>>

painter_vars == <<desc, mouse_pos_prev, mouse_pos, is_painting, brush_size>>

view_vars == <<window_size, bounds, cursor_translated, grid_vertices,
               grid_indices>>

host_vars == <<configs, update_interval, last_update, paused, grid_enabled,
               should_update_texture, view_vars, buf>>

\* A wrapped world whose cells are not followed.
NoWorld == <<>>

\* No release of the pause on record.
NoRelease == <<>>

clock_vars == <<now, last_poll, ever_paused, advances, burst, since_release>>

----------------------------------------------------------------------------
\* Bounds of the model.

\* Grid of the painter specification.
GridW == 2
GridH == 1
\* Largest grid side of the draw_at specification.
MaxDim == 3
\* Last instant of the model clock, and the largest tick interval.
MaxTime == 6
MaxInterval == 3
\* Largest grid side of the line specification.
MaxLine == 4
\* Largest side of the window, in pixels.
MaxWin == 3
\* Largest side of the image of the image specification.
MaxImg == 2
\* Grid of the fill specification.
FillW == 2
FillH == 2
\* Last instant of the specification of the host's events.
MaxAppTime == 2
\* Largest width of the window of the host over the painter.
MaxWiredWin == 2
\* The Life world has at most LifeCells cells.
LifeCells == 4

----------------------------------------------------------------------------
\* Values.

None == "None"
NoPos == <<>>

Inks == {"Dead", "Alive"}
ElementStates == {"Pressed", "Released"}
MouseButtons == {"Left", "Right"}
PainterKeys == {"Digit0", "Digit1", "KeyF", "KeyR", "ArrowUp", "ArrowDown"}
HostKeys == {"Space", "Enter", "KeyG", "KeyX"}

Cells == {<<x, y>> : x \in 0..(width - 1), y \in 0..(height - 1)}

IsPressed(ev, key) == ev[1] = "Pressed" /\ ev[2] = key

RECURSIVE Flatten(_)
Flatten(ss) == IF ss = <<>> THEN <<>> ELSE Head(ss) \o Flatten(Tail(ss))

Paints(cs) == SelectSeq(cs, LAMBDA c : c[1] = "paint")

Forwards(cs) == SelectSeq(cs, LAMBDA c : c[1] = "forward")

----------------------------------------------------------------------------
\* PainterDescriptor

ExamplePalette == [k \in {"Digit0", "Digit1"} |-> IF k = "Digit0" THEN "Dead" ELSE "Alive"]

DefaultDesc ==
    [palette |-> ExamplePalette,
     paint_fn |-> FALSE,
     selected |-> None,
     key_fill |-> "KeyF",
     key_fill_random |-> "KeyR",
     key_brush_expand |-> "ArrowUp",
     key_brush_shrink |-> "ArrowDown"]

BRUSH_SIZE_MAX == 10

----------------------------------------------------------------------------
\* line_drawing::Bresenham, as WithPainter::draw calls it.

OctantNew(start, end) ==
    LET dx0 == end[1] - start[1]
        dy0 == end[2] - start[2]
        neg == dy0 < 0
        dx1 == IF neg THEN -dx0 ELSE dx0
        dy1 == IF neg THEN -dy0 ELSE dy0
        v1 == IF neg THEN 4 ELSE 0
        rot == dx1 < 0
        dx2 == IF rot THEN dy1 ELSE dx1
        dy2 == IF rot THEN -dx1 ELSE dy1
        v2 == IF rot THEN v1 + 2 ELSE v1
    IN  IF dx2 < dy2 THEN v2 + 1 ELSE v2

OctantTo(o, p) ==
    CASE o = 0 -> <<p[1], p[2]>>
      [] o = 1 -> <<p[2], p[1]>>
      [] o = 2 -> <<p[2], -p[1]>>
      [] o = 3 -> <<-p[1], p[2]>>
      [] o = 4 -> <<-p[1], -p[2]>>
      [] o = 5 -> <<-p[2], -p[1]>>
      [] o = 6 -> <<-p[2], p[1]>>
      [] o = 7 -> <<p[1], -p[2]>>

OctantFrom(o, p) ==
    CASE o = 0 -> <<p[1], p[2]>>
      [] o = 1 -> <<p[2], p[1]>>
      [] o = 2 -> <<-p[2], p[1]>>
      [] o = 3 -> <<-p[1], p[2]>>
      [] o = 4 -> <<-p[1], -p[2]>>
      [] o = 5 -> <<-p[2], -p[1]>>
      [] o = 6 -> <<p[2], -p[1]>>
      [] o = 7 -> <<p[1], -p[2]>>

RECURSIVE BresenhamNext(_, _, _, _, _, _)
BresenhamNext(o, point, end_x, delta_x, delta_y, error) ==
    IF point[1] <= end_x
    THEN LET step == error >= 0
             y1 == IF step THEN point[2] + 1 ELSE point[2]
             e1 == IF step THEN error - delta_x ELSE error
         IN  <<OctantFrom(o, point)>>
             \o BresenhamNext(o, <<point[1] + 1, y1>>, end_x, delta_x, delta_y,
                              e1 + delta_y)
    ELSE <<>>

\* The line without its last point.
BresenhamExclusive(start, end) ==
    LET o == OctantNew(start, end)
        s == OctantTo(o, start)
        e == OctantTo(o, end)
        delta_x == e[1] - s[1]
        delta_y == e[2] - s[2]
    IN  BresenhamNext(o, s, e[1] - 1, delta_x, delta_y, delta_y - delta_x)

Bresenham(start, end) ==
    LET o == OctantNew(start, end)
        s == OctantTo(o, start)
        e == OctantTo(o, end)
        delta_x == e[1] - s[1]
        delta_y == e[2] - s[2]
    IN  BresenhamNext(o, s, e[1], delta_x, delta_y, delta_y - delta_x)

----------------------------------------------------------------------------
\* WithPainter

\* u32::checked_add_signed.  A cell coordinate is below the image's width or
\* height, so the sum never passes u32::MAX and only the lower end is met.
\* The result is <<>> for None and <<sum>> for Some(sum).
CheckedAddSigned(v, o) == IF v + o < 0 THEN <<>> ELSE <<v + o>>

\* draw_at without the tests against the image's width and height.
DrawAtUnclipped(x, y, ink, b, w, h) ==
    LET side == 2 * b + 1
        offs == [i \in 1..side |-> (i - 1) - b]
        oys == SelectSeq(offs, LAMBDA oy : CheckedAddSigned(y, oy) # <<>>)
        oxs == SelectSeq(offs, LAMBDA ox : CheckedAddSigned(x, ox) # <<>>)
        n == Len(oxs)
    IN  [i \in 1..(Len(oys) * n) |->
            <<"paint", x + oxs[((i - 1) % n) + 1], y + oys[((i - 1) \div n) + 1], ink>>]

\* The paint calls of draw_at(image, x, y, ink) with brush radius b on a
\* w x h image: the outer loop takes oy = -b..b and skips a row that is out
\* of range, the inner loop takes ox = -b..b and skips a column that is.
DrawAt(x, y, ink, b, w, h) ==
    LET side == 2 * b + 1
        offs == [i \in 1..side |-> (i - 1) - b]
        RowKept(oy) ==
            LET y_ == CheckedAddSigned(y, oy)
            IN  y_ # <<>> /\ ~(y_[1] >= h)
        ColKept(ox) ==
            LET x_ == CheckedAddSigned(x, ox)
            IN  x_ # <<>> /\ ~(x_[1] >= w)
        oys == SelectSeq(offs, RowKept)
        oxs == SelectSeq(offs, ColKept)
        n == Len(oxs)
    IN  [i \in 1..(Len(oys) * n) |->
            <<"paint", x + oxs[((i - 1) % n) + 1], y + oys[((i - 1) \div n) + 1], ink>>]

\* draw without the early return when there is no paint function.
DrawWithoutPaintFn(d, painting, prev, pos, b, w, h) ==
    IF painting /\ d.selected # None /\ prev # NoPos /\ pos # NoPos
    THEN LET line == Bresenham(<<prev[1], prev[2]>>, <<pos[1], pos[2]>>)
         IN  Flatten([i \in 1..Len(line) |->
                        DrawAt(line[i][1], line[i][2], d.selected, b, w, h)])
    ELSE <<>>

\* draw without the test of is_painting.
DrawWhileHovering(d, painting, prev, pos, b, w, h) ==
    IF ~d.paint_fn THEN <<>>
    ELSE IF d.selected # None /\ prev # NoPos /\ pos # NoPos
    THEN LET line == Bresenham(<<prev[1], prev[2]>>, <<pos[1], pos[2]>>)
         IN  Flatten([i \in 1..Len(line) |->
                        DrawAt(line[i][1], line[i][2], d.selected, b, w, h)])
    ELSE <<>>

\* The paint calls of draw(image).  The casts "as i32" and back "as u32" keep
\* the value of every coordinate below 2^31, which a cell of the image is.
Draw(d, painting, prev, pos, b, w, h) ==
    IF ~d.paint_fn THEN <<>>
    ELSE IF painting /\ d.selected # None /\ prev # NoPos /\ pos # NoPos
    THEN LET line == Bresenham(<<prev[1], prev[2]>>, <<pos[1], pos[2]>>)
         IN  Flatten([i \in 1..Len(line) |->
                        DrawAt(line[i][1], line[i][2], d.selected, b, w, h)])
    ELSE <<>>

\* The palette loop without the test of the key's state.
SelectInkOnRelease(d, ev) ==
    IF ev[2] \in DOMAIN d.palette
    THEN [d EXCEPT !.selected = d.palette[ev[2]]]
    ELSE d

\* keyboard_input: the palette loop.
SelectInk(d, ev) ==
    IF ev[1] = "Pressed" /\ ev[2] \in DOMAIN d.palette
    THEN [d EXCEPT !.selected = d.palette[ev[2]]]
    ELSE d

\* The brush resize without the test against BRUSH_SIZE_MAX.
BrushResizeUnclamped(d, b, ev) ==
    LET b1 == IF d.key_brush_expand # None /\ IsPressed(ev, d.key_brush_expand)
              THEN b + 1 ELSE b
    IN  IF d.key_brush_shrink # None /\ IsPressed(ev, d.key_brush_shrink)
        THEN (IF b1 - 1 < 0 THEN 0 ELSE b1 - 1)
        ELSE b1

\* keyboard_input: brush expand, then brush shrink.
BrushResize(d, b, ev) ==
    LET b1 == IF /\ d.key_brush_expand # None
                 /\ IsPressed(ev, d.key_brush_expand)
                 /\ b < BRUSH_SIZE_MAX
              THEN b + 1 ELSE b
    IN  IF d.key_brush_shrink # None /\ IsPressed(ev, d.key_brush_shrink)
        THEN (IF b1 - 1 < 0 THEN 0 ELSE b1 - 1)
        ELSE b1

\* The fill without the test of the selected ink.
FillUnselected(d, ev, w, h) ==
    IF /\ d.paint_fn
       /\ d.key_fill # None
       /\ IsPressed(ev, d.key_fill)
    THEN [i \in 1..(w * h) |-> <<"paint", (i - 1) % w, (i - 1) \div w, d.selected>>]
    ELSE <<>>

\* keyboard_input: fill.  d is the descriptor after the palette loop.
Fill(d, ev, w, h) ==
    IF /\ d.paint_fn
       /\ d.key_fill # None
       /\ IsPressed(ev, d.key_fill)
       /\ d.selected # None
    THEN [i \in 1..(w * h) |-> <<"paint", (i - 1) % w, (i - 1) \div w, d.selected>>]
    ELSE <<>>

\* The random fill running on the release of its key as well.
FillRandomRunsAnyState(d, ev) ==
    /\ d.paint_fn
    /\ d.key_fill_random # None
    /\ ev[2] = d.key_fill_random
    /\ DOMAIN d.palette # {}

\* keyboard_input: whether the random fill runs.
FillRandomRuns(d, ev) ==
    /\ d.paint_fn
    /\ d.key_fill_random # None
    /\ IsPressed(ev, d.key_fill_random)
    /\ DOMAIN d.palette # {}

\* The outcomes of the random generator: one palette value for each cell.
RandomInks(d, ev, w, h) ==
    IF FillRandomRuns(d, ev)
    THEN [1..(w * h) -> {d.palette[k] : k \in DOMAIN d.palette}]
    ELSE {<<>>}

\* The random fill drawing one ink for the whole grid.
FillRandomOneDraw(d, ev, rnd, w, h) ==
    IF FillRandomRuns(d, ev)
    THEN [i \in 1..(w * h) |-> <<"paint", (i - 1) % w, (i - 1) \div w, rnd[1]>>]
    ELSE <<>>

\* keyboard_input: random fill; rnd[i] is the ink drawn for the i-th cell.
FillRandom(d, ev, rnd, w, h) ==
    IF FillRandomRuns(d, ev)
    THEN [i \in 1..(w * h) |-> <<"paint", (i - 1) % w, (i - 1) \div w, rnd[i]>>]
    ELSE <<>>

\* The calls keyboard_input makes, in order; d is the descriptor on entry.
KeyboardInputCalls(d, ev, rnd, w, h) ==
    Fill(SelectInk(d, ev), ev, w, h)
    \o FillRandom(d, ev, rnd, w, h)
    \o << <<"forward", "keyboard_input", ev>> >>

\* The pointer handlers calling the wrapped world before the draw pass.
PointerCallsForwardFirst(painted, method, args) ==
    << <<"forward", method, args>> >> \o painted

\* The calls mouse_input and cursor_moved make: the draw pass, then the
\* wrapped world's handler.
PointerCalls(painted, method, args) ==
    painted \o << <<"forward", method, args>> >>

\* cursor_moved without the replacement of an unknown previous position.
CursorHistoryUnfixed(cur, pos) == <<cur, pos>>

\* cursor_moved keeping the last known cell when the pointer leaves the grid.
CursorHistoryNoLeave(cur, pos) ==
    IF cur = NoPos THEN <<pos, pos>>
    ELSE <<cur, IF pos = NoPos THEN cur ELSE pos>>

\* cursor_moved: the pointer history.
CursorHistory(cur, pos) ==
    LET prev == cur
    IN  IF prev = NoPos THEN <<pos, pos>> ELSE <<prev, pos>>

\* The paint function of the Life example on a grid g of cells: the cell
\* (x, y) takes the ink, and the pixel (x, y) its colour.
PaintFn(g, x, y, ink) == [g EXCEPT ![<<x, y>>] = ink]

\* The grid after the paint calls among cs, in order.
RECURSIVE ApplyPaints(_, _)
ApplyPaints(g, cs) ==
    IF cs = <<>> THEN g
    ELSE LET c == Head(cs)
         IN  ApplyPaints(IF c[1] = "paint" THEN PaintFn(g, c[2], c[3], c[4]) ELSE g,
                         Tail(cs))

PainterInitImage ==
    /\ app_state = "Ready"
    /\ app_state' = "Running"
    /\ event' = <<"init_image", <<>>, <<>>>>
    /\ calls' = << <<"forward", "init_image", <<>>>> >>
    /\ UNCHANGED <<painter_vars, width, height, host_vars, clock_vars, world>>

PainterUpdate ==
    /\ app_state = "Running"
    /\ event' = <<"update", <<>>, <<>>>>
    /\ calls' = << <<"forward", "update", <<>>>> >>
    /\ UNCHANGED <<painter_vars, width, height, app_state, host_vars,
                   clock_vars, world>>

PainterKeyboardInput ==
    /\ app_state = "Running"
    /\ \E st \in ElementStates, key \in PainterKeys :
         LET ev == <<st, key>>
         IN  \E rnd \in RandomInks(desc, ev, width, height) :
               /\ desc' = SelectInk(desc, ev)
               /\ brush_size' = BrushResize(desc, brush_size, ev)
               /\ event' = <<"keyboard_input", ev, <<>>>>
               /\ calls' = KeyboardInputCalls(desc, ev, rnd, width, height)
    /\ UNCHANGED <<mouse_pos_prev, mouse_pos, is_painting,
                   width, height, app_state, host_vars, clock_vars, world>>

\* mouse_input without the test of the button.
PainterMouseInputAnyButton ==
    /\ app_state = "Running"
    /\ \E st \in ElementStates, button \in MouseButtons :
         LET ev == <<st, button, mouse_pos>>
             painting == st = "Pressed"
         IN  /\ is_painting' = painting
             /\ event' = <<"mouse_input", ev, <<>>>>
             /\ calls' = PointerCalls(Draw(desc, painting, mouse_pos_prev, mouse_pos,
                                           brush_size, width, height),
                                      "mouse_input", ev)
    /\ UNCHANGED <<desc, mouse_pos_prev, mouse_pos, brush_size,
                   width, height, app_state, host_vars, clock_vars, world>>

PainterMouseInput ==
    /\ app_state = "Running"
    /\ \E st \in ElementStates, button \in MouseButtons :
         LET ev == <<st, button, mouse_pos>>
             painting == IF button = "Left" THEN st = "Pressed" ELSE is_painting
         IN  /\ is_painting' = painting
             /\ event' = <<"mouse_input", ev, <<>>>>
             /\ calls' = PointerCalls(Draw(desc, painting, mouse_pos_prev, mouse_pos,
                                           brush_size, width, height),
                                      "mouse_input", ev)
    /\ UNCHANGED <<desc, mouse_pos_prev, mouse_pos, brush_size,
                   width, height, app_state, host_vars, clock_vars, world>>

PainterCursorMoved ==
    /\ app_state = "Running"
    /\ \E pos \in Cells \cup {NoPos} :
         LET hist == CursorHistory(mouse_pos, pos)
         IN  /\ mouse_pos_prev' = hist[1]
             /\ mouse_pos' = hist[2]
             /\ event' = <<"cursor_moved", <<pos>>, <<mouse_pos>>>>
             /\ calls' = PointerCalls(Draw(desc, is_painting, hist[1], hist[2],
                                           brush_size, width, height),
                                      "cursor_moved", <<pos>>)
    /\ UNCHANGED <<desc, is_painting, brush_size,
                   width, height, app_state, host_vars, clock_vars, world>>

----------------------------------------------------------------------------
\* WorldImage

\* WorldImage::new without the assertion.
WorldImageNewUnchecked(w, h) == << [i \in 1..(w * h * 4) |-> 0] >>

\* WorldImage::new: <<>> when the assertion width > 0 && height > 0 fails
\* (a panic), else <<buf>> with buf the zeroed bytes.
WorldImageNew(w, h) ==
    IF w > 0 /\ h > 0 THEN << [i \in 1..(w * h * 4) |-> 0] >> ELSE <<>>

\* WorldImage::filled
WorldImageFilled(w, h, color) ==
    IF WorldImageNew(w, h) = <<>> THEN <<>>
    ELSE << [i \in 1..(w * h * 4) |-> color[((i - 1) % 4) + 1]] >>

\* calc_offset without the test of y.
CalcOffsetAnyRow(w, h, x, y) ==
    IF x < w THEN <<(x + y * w) * 4>> ELSE <<>>

\* calc_offset: <<>> for None, <<offset>> for Some(offset).
CalcOffset(w, h, x, y) ==
    IF x < w /\ y < h THEN <<(x + y * w) * 4>> ELSE <<>>

\* get and get_mut: the slice returned.  kind is None, Some, or Panic when
\* the range i..i + 4 is not within the buffer; offset is where the slice
\* starts and bytes is what it holds.
Get(b, w, h, x, y) ==
    LET o == CalcOffset(w, h, x, y)
    IN  IF o = <<>> THEN [kind |-> "None", offset |-> 0, bytes |-> <<>>]
        ELSE IF o[1] + 4 > Len(b) THEN [kind |-> "Panic", offset |-> o[1], bytes |-> <<>>]
        ELSE [kind |-> "Some", offset |-> o[1], bytes |-> SubSeq(b, o[1] + 1, o[1] + 4)]

\* copy_from_slice(color) on the slice a get_mut returned.
CopyFromSlice(b, slot, color) ==
    IF slot.kind = "Some"
    THEN [i \in 1..Len(b) |->
            IF i > slot.offset /\ i <= slot.offset + 4 THEN color[i - slot.offset]
            ELSE b[i]]
    ELSE b

----------------------------------------------------------------------------
\* Rational arithmetic for the f32 and f64 values of the transform.

RECURSIVE GCD(_, _)
GCD(a, b) == IF b = 0 THEN a ELSE GCD(b, a % b)

R(n, d) ==
    LET g == GCD(IF n < 0 THEN -n ELSE n, d)
    IN  <<n \div g, d \div g>>

Zero == <<0, 1>>
One == <<1, 1>>

RSub(a, b) ==
    LET g == GCD(a[2], b[2])
    IN  R(a[1] * (b[2] \div g) - b[1] * (a[2] \div g), (a[2] \div g) * b[2])

RAdd(a, b) == RSub(a, <<-b[1], b[2]>>)

RMul(a, b) ==
    LET g1 == GCD(IF a[1] < 0 THEN -a[1] ELSE a[1], b[2])
        g2 == GCD(IF b[1] < 0 THEN -b[1] ELSE b[1], a[2])
    IN  R((a[1] \div g1) * (b[1] \div g2), (a[2] \div g2) * (b[2] \div g1))

\* a / b for b > 0.
RDiv(a, b) == RMul(a, <<b[2], b[1]>>)

RLess(a, b) == RSub(a, b)[1] < 0

\* f64 as u32 of a value that is not negative: the integer part.
RFloor(a) == a[1] \div a[2]

----------------------------------------------------------------------------
\* The coordinate transform.

\* AppImpl::new: world_aspect.
WorldAspect(w, h) == R(w, h)

\* aspect_adjusted_vertices: the half-extents <<x, y>> of the viewport in
\* normalized space, for a window of a positive width and height.
HalfExtents(world_aspect, size) ==
    LET window_aspect == R(size[1], size[2])
        wide == RLess(world_aspect, window_aspect)
        p == R(999, 1000)
    IN  <<RMul(IF wide THEN RDiv(world_aspect, window_aspect) ELSE One, p),
          RMul(IF wide THEN One ELSE RDiv(window_aspect, world_aspect), p)>>

\* aspect_adjusted_vertices with the pixel bounds of the whole window's
\* letterbox, the margin left out.
AspectAdjustedVerticesNoMargin(world_aspect, size, world_width, world_height) ==
    LET x == RDiv(HalfExtents(world_aspect, size)[1], R(999, 1000))
        y == RDiv(HalfExtents(world_aspect, size)[2], R(999, 1000))
        w == R(size[1], 1)
        h == R(size[2], 1)
        x0 == RDiv(RMul(w, RSub(One, x)), R(2, 1))
        y0 == RDiv(RMul(h, RSub(One, y)), R(2, 1))
        x1 == RSub(w, x0)
        y1 == RSub(h, y0)
        w1 == RDiv(RSub(x1, x0), R(world_width, 1))
        h1 == RDiv(RSub(y1, y0), R(world_height, 1))
    IN  [min |-> <<x0, y0>>, max |-> <<x1, y1>>, cell_scale |-> <<w1, h1>>]

\* aspect_adjusted_vertices: the WorldTransform it returns.
AspectAdjustedVertices(world_aspect, size, world_width, world_height) ==
    LET x == HalfExtents(world_aspect, size)[1]
        y == HalfExtents(world_aspect, size)[2]
        w == R(size[1], 1)
        h == R(size[2], 1)
        x0 == RDiv(RMul(w, RSub(One, x)), R(2, 1))
        y0 == RDiv(RMul(h, RSub(One, y)), R(2, 1))
        x1 == RSub(w, x0)
        y1 == RSub(h, y0)
        w1 == RDiv(RSub(x1, x0), R(world_width, 1))
        h1 == RDiv(RSub(y1, y0), R(world_height, 1))
    IN  [min |-> <<x0, y0>>, max |-> <<x1, y1>>, cell_scale |-> <<w1, h1>>]

\* LineVertex::default
DefaultLineVertex == [position |-> <<Zero, Zero>>, strength |-> Zero]

\* AppImpl::new: vec![LineVertex::default(); grid_vertices_len]
NewGridVertices(w, h) == [i \in 1..((w + h + 2) * 4) |-> DefaultLineVertex]

positions_rectangle(top_left, bottom_right) ==
    << <<top_left[1], bottom_right[2]>>, <<bottom_right[1], bottom_right[2]>>,
       <<top_left[1], top_left[2]>>, <<bottom_right[1], top_left[2]>> >>

line_vertices_rectangle(top_left, bottom_right, strength) ==
    LET abcd == positions_rectangle(top_left, bottom_right)
    IN  [i \in 1..4 |-> [position |-> abcd[i], strength |-> strength]]

\* update_grid_vertices with the interior loops starting at line 0.
UpdateGridVerticesFromZero(x, y, world_width, world_height, half_line_width, half_line_height) ==
    LET x0 == <<-x[1], x[2]>>
        y0 == <<-y[1], y[2]>>
        vertical(lx_, strength) ==
            LET lx == RAdd(RMul(x0, R(world_width - lx_, world_width)),
                           RMul(x, R(lx_, world_width)))
            IN  line_vertices_rectangle(<<RSub(lx, half_line_width), y>>,
                                        <<RAdd(lx, half_line_width), y0>>, strength)
        horizontal(ly_, strength) ==
            LET ly == RAdd(RMul(y0, R(world_height - ly_, world_height)),
                           RMul(y, R(ly_, world_height)))
            IN  line_vertices_rectangle(<<x0, RAdd(ly, half_line_height)>>,
                                        <<x, RSub(ly, half_line_height)>>, strength)
    IN  << <<"copy_vertices", 0, vertical(0, One)>>,
           <<"copy_vertices", 1, vertical(world_width, One)>>,
           <<"copy_vertices", 2, horizontal(0, One)>>,
           <<"copy_vertices", 3, horizontal(world_height, One)>> >>
        \o [i \in 1..world_width |->
              <<"copy_vertices", (i - 1) + 3, vertical(i - 1, R(1, 2))>>]
        \o [i \in 1..world_height |->
              <<"copy_vertices", ((i - 1) + world_width) + 2, horizontal(i - 1, R(1, 2))>>]

\* update_grid_vertices: the calls of copy_vertices it makes, in order, each
\* <<"copy_vertices", i, vertices>>; x and y are the half-extents.
UpdateGridVertices(x, y, world_width, world_height, half_line_width, half_line_height) ==
    LET x0 == <<-x[1], x[2]>>
        y0 == <<-y[1], y[2]>>
        vertical(lx_, strength) ==
            LET lx == RAdd(RMul(x0, R(world_width - lx_, world_width)),
                           RMul(x, R(lx_, world_width)))
            IN  line_vertices_rectangle(<<RSub(lx, half_line_width), y>>,
                                        <<RAdd(lx, half_line_width), y0>>, strength)
        horizontal(ly_, strength) ==
            LET ly == RAdd(RMul(y0, R(world_height - ly_, world_height)),
                           RMul(y, R(ly_, world_height)))
            IN  line_vertices_rectangle(<<x0, RAdd(ly, half_line_height)>>,
                                        <<x, RSub(ly, half_line_height)>>, strength)
    IN  << <<"copy_vertices", 0, vertical(0, One)>>,
           <<"copy_vertices", 1, vertical(world_width, One)>>,
           <<"copy_vertices", 2, horizontal(0, One)>>,
           <<"copy_vertices", 3, horizontal(world_height, One)>> >>
        \o [i \in 1..(world_width - 1) |->
              <<"copy_vertices", i + 3, vertical(i, R(1, 2))>>]
        \o [i \in 1..(world_height - 1) |->
              <<"copy_vertices", (i + world_width) + 2, horizontal(i, R(1, 2))>>]

\* grid_indices with the second triangle of a bar running into the next bar.
GridIndicesFan(world_width, world_height) ==
    Flatten([k \in 1..(world_width + world_height + 2) |->
               LET i == (k - 1) * 4
               IN  <<i, i + 1, i + 2, i + 2, i + 3, i + 4>>])

\* grid_indices: the six indices of the two triangles of each bar, bar after
\* bar.
GridIndices(world_width, world_height) ==
    Flatten([k \in 1..(world_width + world_height + 2) |->
               LET i == (k - 1) * 4
               IN  <<i, i + 1, i + 2, i + 2, i + 1, i + 3>>])

\* copy_vertices: grid_vertices[i * 4..i * 4 + 4].copy_from_slice(vertices).
CopyVertices(gv, i, vertices) ==
    [k \in 1..Len(gv) |->
        IF k > i * 4 /\ k <= i * 4 + 4 THEN vertices[k - i * 4] ELSE gv[k]]

\* grid_vertices after the calls cs of copy_vertices, in order.
RECURSIVE CopyAll(_, _)
CopyAll(gv, cs) ==
    IF cs = <<>> THEN gv
    ELSE CopyAll(CopyVertices(gv, Head(cs)[2], Head(cs)[3]), Tail(cs))

\* aspect_adjusted_vertices: the calls of copy_vertices made on
\* grid_vertices.
GridCopies(world_aspect, size, world_width, world_height) ==
    UpdateGridVertices(HalfExtents(world_aspect, size)[1],
                       HalfExtents(world_aspect, size)[2],
                       world_width, world_height,
                       R(1, size[1]), R(1, size[2]))

\* The value of bounds before AppImpl is built.
NoBounds == [min |-> <<Zero, Zero>>, max |-> <<Zero, Zero>>, cell_scale |-> <<One, One>>]

\* WorldTransform::translate_position
TranslatePosition(b, pos) ==
    LET calc_pos(val, min, scale) ==
            LET v == RSub(val, min)
            IN  IF ~RLess(v, Zero) THEN <<RFloor(RDiv(v, scale))>> ELSE <<>>
        x == calc_pos(pos[1], b.min[1], b.cell_scale[1])
        y == calc_pos(pos[2], b.min[2], b.cell_scale[2])
    IN  IF x = <<>> THEN NoPos
        ELSE IF y = <<>> THEN NoPos
        ELSE <<x[1], y[1]>>

\* cursor_moved without the bounds check.
BoundsCheckSkipped(pos, w, h) == pos

\* cursor_moved: the bounds check.
BoundsCheck(pos, w, h) ==
    IF pos # NoPos /\ (pos[1] >= w \/ pos[2] >= h) THEN NoPos ELSE pos

\* The state of the view where the window is not followed.
ViewIdle ==
    /\ window_size = <<1, 1>>
    /\ bounds = NoBounds
    /\ cursor_translated = NoPos
    /\ grid_vertices = <<>>
    /\ grid_indices = <<>>
    /\ buf = <<>>

----------------------------------------------------------------------------
\* AppImpl: the update cycle and the keyboard handler.  Instants are counted
\* in clock units from the construction of AppImpl; the world the host holds
\* is any World, and calls lists the calls made on it.

\* AppConfigs::default
DefaultConfigs ==
    [key_play |-> "Space", key_update_once |-> "Enter", key_grid |-> "KeyG"]

\* update without the early return.
UpdateDueAlways(dt, interval) == TRUE

\* update: the early return is taken when dt < update_interval.
UpdateDue(dt, interval) == ~(dt < interval)

\* update setting last_update to the instant of the poll.
NextLastUpdateNow(last, dt, interval) ==
    IF UpdateDue(dt, interval) THEN last + dt ELSE last

\* update: last_update.checked_add(update_interval).unwrap_or(now).  The sum
\* is at most now when the update is due, so checked_add never fails.
NextLastUpdate(last, dt, interval) ==
    IF UpdateDue(dt, interval) THEN last + interval ELSE last

\* update running every interval that has elapsed.
UpdateCallsCatchUp(dt, interval, p) ==
    IF UpdateDue(dt, interval) /\ ~p
    THEN [i \in 1..(dt \div interval) |-> <<"forward", "update", <<>>>>]
    ELSE <<>>

\* update: the calls made on the world, p the pause flag.
UpdateCalls(dt, interval, p) ==
    IF UpdateDue(dt, interval) /\ ~p
    THEN << <<"forward", "update", <<>>>> >>
    ELSE <<>>

\* The pause flag flipping on the release of the play key as well.
TogglePauseAnyState(c, p, ev) ==
    IF c.key_play # None /\ ev[2] = c.key_play THEN ~p ELSE p

\* keyboard_input: the pause flag after the play key is handled.
TogglePause(c, p, ev) ==
    IF c.key_play # None /\ IsPressed(ev, c.key_play) THEN ~p ELSE p

\* The single step without the test of the pause flag.
StepCallsAnyState(c, p, ev) ==
    IF c.key_update_once # None /\ IsPressed(ev, c.key_update_once)
    THEN << <<"forward", "update", <<>>>> >>
    ELSE <<>>

\* keyboard_input: the single step; p is the pause flag after TogglePause.
StepCalls(c, p, ev) ==
    IF p /\ c.key_update_once # None /\ IsPressed(ev, c.key_update_once)
    THEN << <<"forward", "update", <<>>>> >>
    ELSE <<>>

ToggleGrid(c, g, ev) ==
    IF c.key_grid # None /\ IsPressed(ev, c.key_grid) THEN ~g ELSE g

NUpdates(cs) == Len(SelectSeq(cs, LAMBDA c : c[1] = "forward" /\ c[2] = "update"))

\* App::resumed: AppState::init runs AppImpl::new, which asks the world for
\* the image first, creates the window next, creates the texture, copying
\* the image to it, and computes bounds from the window's size.  A panic in
\* WorldImage::new ends the program there.
AppNew ==
    /\ app_state = "Ready"
    /\ event' = <<"resumed", <<>>, <<>>>>
    /\ IF WorldImageNew(width, height) = <<>>
       THEN /\ app_state' = "Aborted"
            /\ calls' = << <<"forward", "init_image", <<>>>> >>
            /\ UNCHANGED <<last_update, last_poll, bounds, grid_vertices,
                           grid_indices>>
       ELSE LET copies == GridCopies(WorldAspect(width, height), window_size,
                                     width, height)
            IN  /\ app_state' = "Running"
                /\ calls' = << <<"forward", "init_image", <<>>>>, <<"create_window">>,
                                <<"update_wgpu_texture">> >>
                             \o copies
                /\ last_update' = now
                /\ last_poll' = now
                /\ bounds' = AspectAdjustedVertices(WorldAspect(width, height),
                                                    window_size, width, height)
                /\ grid_vertices' = CopyAll(NewGridVertices(width, height), copies)
                /\ grid_indices' = GridIndices(width, height)
    /\ UNCHANGED <<painter_vars, width, height, configs, update_interval, paused,
                   grid_enabled, should_update_texture, window_size,
                   cursor_translated, buf, now, ever_paused, advances, burst,
                   since_release, world>>

\* The clock moves by one unit.
Tick ==
    /\ app_state = "Running"
    /\ now < MaxTime
    /\ now' = now + 1
    /\ burst' = 0
    /\ UNCHANGED <<painter_vars, width, height, app_state, host_vars, last_poll,
                   ever_paused, advances, since_release, world, event,
                   calls>>

\* The clock moves by one unit, the polls arriving more often than once per
\* update_interval: the next poll comes less than an interval after the last.
TickFast ==
    /\ (now + 1) - last_poll < update_interval
    /\ Tick

\* grid_indices_range drawing every bar whatever the flag.
GridIndicesRangeAll(n_indices, enabled) == <<0, n_indices>>

\* grid_indices_range: the range start..end (end excluded) of the indices
\* drawn.
GridIndicesRange(n_indices, enabled) ==
    IF enabled THEN <<0, n_indices>> ELSE <<0, 24>>

\* render presenting the frame before the image is copied to the texture.
RenderCallsLateUpload(flag, acquired, n_indices, enabled) ==
    (IF acquired
     THEN << <<"draw_indexed", GridIndicesRange(n_indices, enabled)>>,
             <<"present">> >>
     ELSE <<>>)
    \o (IF flag THEN << <<"update_wgpu_texture">> >> ELSE <<>>)

\* render: the calls it makes.  flag is should_update_texture at its entry;
\* acquired tells whether surface.get_current_texture returned a frame, and
\* render returns at that line with the error when it did not.
RenderCalls(flag, acquired, n_indices, enabled) ==
    (IF flag THEN << <<"update_wgpu_texture">> >> ELSE <<>>)
    \o (IF acquired
        THEN << <<"draw_indexed", GridIndicesRange(n_indices, enabled)>>,
                <<"present">> >>
        ELSE <<>>)

\* WindowEvent::RedrawRequested: update, then render().unwrap().  The surface
\* gives a frame or an error, as the renderer decides; the error is unwrapped
\* and the panic ends the program.
RedrawStep ==
    /\ app_state = "Running"
    /\ \E acquired \in BOOLEAN :
         LET dt == now - last_update
             made == UpdateCalls(dt, update_interval, paused)
             flag == should_update_texture \/ NUpdates(made) > 0
         IN  /\ last_update' = NextLastUpdate(last_update, dt, update_interval)
             /\ event' = <<"redraw", <<>>, <<dt, acquired>>>>
             /\ calls' = made \o RenderCalls(flag, acquired, Len(grid_indices),
                                             grid_enabled)
             /\ app_state' = IF acquired THEN "Running" ELSE "Aborted"
             /\ advances' = advances + NUpdates(made)
             /\ burst' = burst + NUpdates(made)
    /\ should_update_texture' = FALSE
    /\ last_poll' = now
    /\ UNCHANGED <<painter_vars, width, height, configs, update_interval,
                   paused, grid_enabled, view_vars, buf, now, ever_paused,
                   world>>

\* A redraw, the history of releases not followed.
Redraw ==
    /\ RedrawStep
    /\ UNCHANGED since_release

\* WindowEvent::KeyboardInput
KeyboardInputStep ==
    /\ app_state = "Running"
    /\ \E st \in ElementStates, key \in HostKeys :
         LET ev == <<st, key>>
             p == TogglePause(configs, paused, ev)
         IN  /\ paused' = p
             /\ ever_paused' = (ever_paused \/ p)
             /\ grid_enabled' = ToggleGrid(configs, grid_enabled, ev)
             /\ event' = <<"keyboard_input", ev, <<>>>>
             /\ calls' = StepCalls(configs, p, ev)
                          \o << <<"forward", "keyboard_input", ev>> >>
    /\ should_update_texture' = TRUE
    /\ UNCHANGED <<painter_vars, width, height, app_state, configs, update_interval,
                   last_update, view_vars, buf, now, last_poll, advances, burst,
                   world>>

\* A key event, the history of releases not followed.
AppKeyboardInput ==
    /\ KeyboardInputStep
    /\ UNCHANGED since_release

PainterIdle ==
    /\ desc = DefaultDesc
    /\ mouse_pos_prev = NoPos
    /\ mouse_pos = NoPos
    /\ is_painting = FALSE
    /\ brush_size = 0
    /\ width = GridW
    /\ height = GridH

\* App::new with the default keys, or with the single step on the play key.
InitSched ==
    /\ PainterIdle
    /\ app_state = "Ready"
    /\ configs \in {DefaultConfigs,
                    [DefaultConfigs EXCEPT !.key_update_once = "Space"]}
    /\ update_interval \in 1..MaxInterval
    /\ last_update = 0
    /\ paused = FALSE
    /\ grid_enabled = FALSE
    /\ should_update_texture = FALSE
    /\ ViewIdle
    /\ now = 0
    /\ last_poll = 0
    /\ ever_paused = FALSE
    /\ advances = 0
    /\ burst = 0
    /\ since_release = NoRelease
    /\ world = NoWorld
    /\ event = <<"new", <<>>, <<>>>>
    /\ calls = <<>>

NextSched ==
    \/ AppNew
    \/ Tick
    \/ Redraw
    \/ AppKeyboardInput

\* Polls at any cadence, stalls included.
SpecSched == InitSched /\ [][NextSched]_vars

NextSchedFast ==
    \/ AppNew
    \/ TickFast
    \/ Redraw
    \/ AppKeyboardInput

\* Polls arriving more often than once per update_interval.
SpecSchedFast == InitSched /\ [][NextSchedFast]_vars

\* A key event: the play key that starts a pause starts the record of the
\* pause, and the one that ends a pause polls arrived in starts the record of
\* the release.
ReleaseKeyboardInput ==
    /\ KeyboardInputStep
    /\ since_release' = IF ~paused /\ paused' THEN <<FALSE>>
                        ELSE IF paused /\ ~paused'
                        THEN IF since_release = <<TRUE>> THEN <<now, 0>>
                             ELSE NoRelease
                        ELSE since_release

\* A redraw: a poll of the pause is recorded, and after a release the
\* advances update made are added to the record.
ReleaseRedraw ==
    /\ RedrawStep
    /\ since_release' = IF Len(since_release) = 1 THEN <<TRUE>>
                        ELSE IF Len(since_release) = 2
                        THEN <<since_release[1],
                               since_release[2] + (advances' - advances)>>
                        ELSE NoRelease

NextRelease ==
    \/ AppNew
    \/ TickFast
    \/ ReleaseRedraw
    \/ ReleaseKeyboardInput

\* Polls arriving more often than once per update_interval, before, during
\* and after a pause, the releases of the pause on record.
SpecRelease == InitSched /\ [][NextRelease]_vars

HostIdle ==
    /\ configs = DefaultConfigs
    /\ update_interval = 1
    /\ last_update = 0
    /\ paused = FALSE
    /\ grid_enabled = FALSE
    /\ should_update_texture = FALSE
    /\ ViewIdle
    /\ now = 0
    /\ last_poll = 0
    /\ ever_paused = FALSE
    /\ advances = 0
    /\ burst = 0
    /\ since_release = NoRelease
    /\ world = NoWorld

\* WithPainter::new over a GridW x GridH world, random fill not bound.
InitPainter ==
    /\ \E fn \in BOOLEAN, ink \in Inks \cup {None} :
         desc = [DefaultDesc EXCEPT !.paint_fn = fn, !.selected = ink,
                                    !.key_fill_random = None]
    /\ mouse_pos_prev = NoPos
    /\ mouse_pos = NoPos
    /\ is_painting = FALSE
    /\ brush_size = 0
    /\ width = GridW
    /\ height = GridH
    /\ app_state = "Ready"
    /\ event = <<"new", <<>>, <<>>>>
    /\ calls = <<>>
    /\ HostIdle

NextPainter ==
    \/ PainterInitImage
    \/ PainterUpdate
    \/ PainterKeyboardInput
    \/ PainterMouseInput
    \/ PainterCursorMoved

\* The painter over a GridW x GridH world, driven by any sequence of events.
SpecPainter == InitPainter /\ [][NextPainter]_vars

----------------------------------------------------------------------------
\* draw_at as a function of the point, the brush radius and the image size.

InitDrawAt ==
    /\ desc = [DefaultDesc EXCEPT !.paint_fn = TRUE]
    /\ mouse_pos_prev = NoPos
    /\ mouse_pos = NoPos
    /\ is_painting = FALSE
    /\ brush_size \in 0..BRUSH_SIZE_MAX
    /\ width \in 1..MaxDim
    /\ height \in 1..MaxDim
    /\ app_state = "Running"
    /\ event = <<"new", <<>>, <<>>>>
    /\ calls = <<>>
    /\ HostIdle

DrawAtPoint ==
    /\ \E c \in Cells, ink \in Inks :
         /\ event' = <<"draw_at", <<c[1], c[2], ink>>, <<>>>>
         /\ calls' = DrawAt(c[1], c[2], ink, brush_size, width, height)
    /\ UNCHANGED <<painter_vars, width, height, app_state, host_vars,
                   clock_vars, world>>

NextDrawAt == DrawAtPoint

SpecDrawAt == InitDrawAt /\ [][NextDrawAt]_vars

----------------------------------------------------------------------------
\* draw as a function of the two pointer cells: painting is active, an ink is
\* selected and the brush radius is 0, so that the paint calls are the cells
\* of the line from mouse_pos_prev to mouse_pos.

InitLine ==
    /\ desc = [DefaultDesc EXCEPT !.paint_fn = TRUE, !.selected = "Alive"]
    /\ mouse_pos_prev = NoPos
    /\ mouse_pos = NoPos
    /\ is_painting = TRUE
    /\ brush_size = 0
    /\ width \in 1..MaxLine
    /\ height \in 1..MaxLine
    /\ app_state = "Running"
    /\ event = <<"new", <<>>, <<>>>>
    /\ calls = <<>>
    /\ HostIdle

DrawLine ==
    /\ \E p \in Cells, q \in Cells :
         /\ mouse_pos_prev' = p
         /\ mouse_pos' = q
         /\ event' = <<"draw", <<p, q>>, <<>>>>
         /\ calls' = Draw(desc, is_painting, p, q, brush_size, width, height)
    /\ UNCHANGED <<desc, is_painting, brush_size, width, height, app_state,
                   host_vars, clock_vars, world>>

NextLine == DrawLine

SpecLine == InitLine /\ [][NextLine]_vars

----------------------------------------------------------------------------
\* keyboard_input with the palette, fill and random fill keys, over a
\* FillW x FillH world: the descriptor has the default keys, a paint function
\* or none, a selected ink or none, and the example palette or an empty one.

FillKeys == {"Digit0", "Digit1", "KeyF", "KeyR"}

EmptyPalette == [k \in {} |-> "Dead"]

InitFill ==
    /\ \E fn \in BOOLEAN, ink \in Inks \cup {None},
          pal \in {ExamplePalette, EmptyPalette} :
         desc = [DefaultDesc EXCEPT !.paint_fn = fn, !.selected = ink,
                                    !.palette = pal]
    /\ mouse_pos_prev = NoPos
    /\ mouse_pos = NoPos
    /\ is_painting = FALSE
    /\ brush_size = 0
    /\ width = FillW
    /\ height = FillH
    /\ app_state = "Running"
    /\ event = <<"new", <<>>, <<>>>>
    /\ calls = <<>>
    /\ HostIdle

FillKeyboardInput ==
    /\ app_state = "Running"
    /\ \E st \in ElementStates, key \in FillKeys :
         LET ev == <<st, key>>
         IN  \E rnd \in RandomInks(desc, ev, width, height) :
               /\ desc' = SelectInk(desc, ev)
               /\ brush_size' = BrushResize(desc, brush_size, ev)
               /\ event' = <<"keyboard_input", ev, <<>>>>
               /\ calls' = KeyboardInputCalls(desc, ev, rnd, width, height)
    /\ UNCHANGED <<mouse_pos_prev, mouse_pos, is_painting,
                   width, height, app_state, host_vars, clock_vars, world>>

NextFill == FillKeyboardInput

SpecFill == InitFill /\ [][NextFill]_vars

----------------------------------------------------------------------------
\* AppImpl: the window's size and the cursor, over a GridW x GridH world.

WindowSizes == {<<w, h>> : w \in 0..MaxWin, h \in 0..MaxWin}

\* The coordinates of a cursor position on an axis of n pixels whose
\* viewport runs from lo to hi: the centre of each pixel and of the pixel
\* before the first, and lo and hi.
Axis(n, lo, hi) == {R(2 * k + 1, 2) : k \in (-1)..(n - 1)} \cup {lo, hi}

Positions(size, b) ==
    {<<px, py>> : px \in Axis(size[1], b.min[1], b.max[1]),
                  py \in Axis(size[2], b.min[2], b.max[2])}

\* resize returning early when the width alone is the one stored.
HostResizeWidthOnly ==
    /\ app_state = "Running"
    /\ \E new_window_size \in WindowSizes :
         /\ event' = <<"Resized", new_window_size, <<>>>>
         /\ IF new_window_size[1] = window_size[1]
            THEN /\ calls' = <<>>
                 /\ UNCHANGED <<window_size, bounds, grid_vertices>>
            ELSE /\ window_size' = new_window_size
                 /\ IF new_window_size[1] = 0 \/ new_window_size[2] = 0
                    THEN /\ calls' = <<>>
                         /\ UNCHANGED <<bounds, grid_vertices>>
                    ELSE LET copies == GridCopies(WorldAspect(width, height),
                                                  new_window_size, width, height)
                         IN  /\ calls' = copies
                             /\ bounds' = AspectAdjustedVertices(
                                              WorldAspect(width, height),
                                              new_window_size, width, height)
                             /\ grid_vertices' = CopyAll(grid_vertices, copies)
    /\ UNCHANGED <<painter_vars, width, height, app_state, configs, update_interval,
                   last_update, paused, grid_enabled, should_update_texture,
                   cursor_translated, grid_indices, buf, clock_vars, world>>

\* resize
Resize(new_window_size) ==
    /\ event' = <<"Resized", new_window_size, <<>>>>
    /\ IF new_window_size = window_size
       THEN /\ calls' = <<>>
            /\ UNCHANGED <<window_size, bounds, grid_vertices>>
       ELSE /\ window_size' = new_window_size
            /\ IF new_window_size[1] = 0 \/ new_window_size[2] = 0
               THEN /\ calls' = <<>>
                    /\ UNCHANGED <<bounds, grid_vertices>>
               ELSE LET copies == GridCopies(WorldAspect(width, height),
                                             new_window_size, width, height)
                    IN  /\ calls' = copies
                        /\ bounds' = AspectAdjustedVertices(
                                         WorldAspect(width, height),
                                         new_window_size, width, height)
                        /\ grid_vertices' = CopyAll(grid_vertices, copies)

\* WindowEvent::Resized
HostResize ==
    /\ app_state = "Running"
    /\ \E new_window_size \in WindowSizes : Resize(new_window_size)
    /\ UNCHANGED <<painter_vars, width, height, app_state, configs, update_interval,
                   last_update, paused, grid_enabled, should_update_texture,
                   cursor_translated, grid_indices, buf, clock_vars, world>>

\* WindowEvent::CursorMoved
HostCursorMoved ==
    /\ app_state = "Running"
    /\ \E position \in Positions(window_size, bounds) :
         LET pos == BoundsCheck(TranslatePosition(bounds, position), width, height)
         IN  /\ cursor_translated' = pos
             /\ event' = <<"CursorMoved", position, <<>>>>
             /\ calls' = << <<"forward", "cursor_moved", <<pos>>>> >>
    /\ should_update_texture' = TRUE
    /\ UNCHANGED <<painter_vars, width, height, app_state, configs, update_interval,
                   last_update, paused, grid_enabled, window_size, bounds,
                   grid_vertices, grid_indices, buf, clock_vars, world>>

\* App::new; the window is created with a positive width and height.
InitCursor ==
    /\ PainterIdle
    /\ app_state = "Ready"
    /\ configs = DefaultConfigs
    /\ update_interval = 1
    /\ last_update = 0
    /\ paused = FALSE
    /\ grid_enabled = FALSE
    /\ should_update_texture = FALSE
    /\ window_size \in {s \in WindowSizes : s[1] > 0 /\ s[2] > 0}
    /\ bounds = NoBounds
    /\ cursor_translated = NoPos
    /\ grid_vertices = <<>>
    /\ grid_indices = <<>>
    /\ buf = <<>>
    /\ now = 0
    /\ last_poll = 0
    /\ ever_paused = FALSE
    /\ advances = 0
    /\ burst = 0
    /\ since_release = NoRelease
    /\ world = NoWorld
    /\ event = <<"new", <<>>, <<>>>>
    /\ calls = <<>>

NextCursor ==
    \/ AppNew
    \/ HostResize
    \/ HostCursorMoved

SpecCursor == InitCursor /\ [][NextCursor]_vars

----------------------------------------------------------------------------
\* Start-up: App::new over a world whose grid is width x height, either of
\* which may be 0, then App::resumed.

InitStart ==
    /\ desc = DefaultDesc
    /\ mouse_pos_prev = NoPos
    /\ mouse_pos = NoPos
    /\ is_painting = FALSE
    /\ brush_size = 0
    /\ width \in 0..MaxDim
    /\ height \in 0..MaxDim
    /\ app_state = "Ready"
    /\ configs = DefaultConfigs
    /\ update_interval = 1
    /\ last_update = 0
    /\ paused = FALSE
    /\ grid_enabled = FALSE
    /\ should_update_texture = FALSE
    /\ window_size \in {s \in WindowSizes : s[1] > 0 /\ s[2] > 0}
    /\ bounds = NoBounds
    /\ cursor_translated = NoPos
    /\ grid_vertices = <<>>
    /\ grid_indices = <<>>
    /\ buf = <<>>
    /\ now = 0
    /\ last_poll = 0
    /\ ever_paused = FALSE
    /\ advances = 0
    /\ burst = 0
    /\ since_release = NoRelease
    /\ world = NoWorld
    /\ event = <<"new", <<>>, <<>>>>
    /\ calls = <<>>

NextStart == AppNew

SpecStart == InitStart /\ [][NextStart]_vars

----------------------------------------------------------------------------
\* WorldImage: an image of any size up to MaxImg x MaxImg, read with get and
\* written through get_mut with the colour of a live cell of the example.

AliveColor == <<255, 255, 255, 255>>

InitImage ==
    /\ desc = DefaultDesc
    /\ mouse_pos_prev = NoPos
    /\ mouse_pos = NoPos
    /\ is_painting = FALSE
    /\ brush_size = 0
    /\ width \in 1..MaxImg
    /\ height \in 1..MaxImg
    /\ app_state = "Running"
    /\ configs = DefaultConfigs
    /\ update_interval = 1
    /\ last_update = 0
    /\ paused = FALSE
    /\ grid_enabled = FALSE
    /\ should_update_texture = FALSE
    /\ window_size = <<1, 1>>
    /\ bounds = NoBounds
    /\ cursor_translated = NoPos
    /\ grid_vertices = <<>>
    /\ grid_indices = <<>>
    /\ buf \in {WorldImageNew(width, height)[1],
                 WorldImageFilled(width, height, AliveColor)[1]}
    /\ now = 0
    /\ last_poll = 0
    /\ ever_paused = FALSE
    /\ advances = 0
    /\ burst = 0
    /\ since_release = NoRelease
    /\ world = NoWorld
    /\ event = <<"new", <<>>, <<>>>>
    /\ calls = <<>>

\* image.get(x, y)
ImageGet ==
    /\ \E x \in 0..MaxImg, y \in 0..MaxImg :
         /\ event' = <<"get", <<x, y>>, <<>>>>
         /\ calls' = << <<"return", Get(buf, width, height, x, y)>> >>
    /\ UNCHANGED <<painter_vars, width, height, app_state, host_vars,
                   clock_vars, world>>

\* image.get_mut(x, y), and copy_from_slice on the slice when there is one.
ImageGetMut ==
    /\ \E x \in 0..MaxImg, y \in 0..MaxImg :
         LET slot == Get(buf, width, height, x, y)
         IN  /\ event' = <<"get_mut", <<x, y>>, <<>>>>
             /\ calls' = << <<"return", slot>> >>
             /\ buf' = CopyFromSlice(buf, slot, AliveColor)
    /\ UNCHANGED <<painter_vars, width, height, app_state, configs, update_interval,
                   last_update, paused, grid_enabled, should_update_texture,
                   view_vars, clock_vars, world>>

NextImage ==
    \/ ImageGet
    \/ ImageGetMut

SpecImage == InitImage /\ [][NextImage]_vars

----------------------------------------------------------------------------
\* The overlay grid: AppImpl over a world of any size up to MaxDim x MaxDim,
\* whose window is resized.

InitGrid ==
    /\ desc = DefaultDesc
    /\ mouse_pos_prev = NoPos
    /\ mouse_pos = NoPos
    /\ is_painting = FALSE
    /\ brush_size = 0
    /\ width \in 1..MaxDim
    /\ height \in 1..MaxDim
    /\ app_state = "Ready"
    /\ configs = DefaultConfigs
    /\ update_interval = 1
    /\ last_update = 0
    /\ paused = FALSE
    /\ grid_enabled = FALSE
    /\ should_update_texture = FALSE
    /\ window_size \in {s \in WindowSizes : s[1] > 0 /\ s[2] > 0}
    /\ bounds = NoBounds
    /\ cursor_translated = NoPos
    /\ grid_vertices = <<>>
    /\ grid_indices = <<>>
    /\ buf = <<>>
    /\ now = 0
    /\ last_poll = 0
    /\ ever_paused = FALSE
    /\ advances = 0
    /\ burst = 0
    /\ since_release = NoRelease
    /\ world = NoWorld
    /\ event = <<"new", <<>>, <<>>>>
    /\ calls = <<>>

NextGrid ==
    \/ AppNew
    \/ HostResize

SpecGrid == InitGrid /\ [][NextGrid]_vars

----------------------------------------------------------------------------
\* The overlay's draw range: AppImpl over a world of any size up to
\* MaxDim x MaxDim, with the keyboard and the redraws.

NextOverlay ==
    \/ AppNew
    \/ AppKeyboardInput
    \/ Redraw

SpecOverlay == InitGrid /\ [][NextOverlay]_vars

----------------------------------------------------------------------------
\* App: the host's events in any order, over a GridW x GridH world.

\* WindowEvent::MouseInput
HostMouseInput ==
    /\ app_state = "Running"
    /\ \E st \in ElementStates, button \in MouseButtons :
         LET ev == <<st, button, cursor_translated>>
         IN  /\ event' = <<"MouseInput", ev, <<>>>>
             /\ calls' = << <<"forward", "mouse_input", ev>> >>
    /\ should_update_texture' = TRUE
    /\ UNCHANGED <<painter_vars, width, height, app_state, configs, update_interval,
                   last_update, paused, grid_enabled, view_vars, buf,
                   clock_vars, world>>

\* App::resumed making a new AppImpl in place of the running one.
AppResumedReinit ==
    /\ app_state = "Running"
    /\ event' = <<"resumed", <<>>, <<"Running">>>>
    /\ calls' = << <<"forward", "init_image", <<>>>>, <<"create_window">> >>
    /\ last_update' = now
    /\ UNCHANGED <<painter_vars, width, height, app_state, configs, update_interval,
                   paused, grid_enabled, should_update_texture, view_vars, buf,
                   clock_vars, world>>

\* App::resumed on AppState::Running: AppState::init panics before it calls
\* the initializer.
AppResumedRunning ==
    /\ app_state = "Running"
    /\ event' = <<"resumed", <<>>, <<"Running">>>>
    /\ calls' = <<>>
    /\ app_state' = "Aborted"
    /\ UNCHANGED <<painter_vars, width, height, host_vars, clock_vars, world>>

\* App::window_event on AppState::Ready: unwrap_running_mut panics.
AppWindowEventReady ==
    /\ app_state = "Ready"
    /\ event' = <<"window_event", <<>>, <<"Ready">>>>
    /\ calls' = <<>>
    /\ app_state' = "Aborted"
    /\ UNCHANGED <<painter_vars, width, height, host_vars, clock_vars, world>>

\* The clock moves by one unit, up to MaxAppTime.
TickApp ==
    /\ now < MaxAppTime
    /\ Tick

\* App::new with the default keys and an update every unit of the clock.
InitApp ==
    /\ InitSched
    /\ configs = DefaultConfigs
    /\ update_interval = 1

NextApp ==
    \/ AppNew
    \/ AppResumedRunning
    \/ AppWindowEventReady
    \/ TickApp
    \/ Redraw
    \/ AppKeyboardInput
    \/ HostMouseInput
    \/ HostCursorMoved

SpecApp == InitApp /\ [][NextApp]_vars

----------------------------------------------------------------------------
\* The host over a world wrapped by WithPainter: the window events reach the
\* painter through AppImpl, and calls lists the calls the painter makes.

WiredKeys == {"Digit1"}

\* The positions of the cursor: on the middle of the window's row of pixels,
\* at each coordinate of Axis.
WiredPositions(size, b) ==
    {<<px, R(1, 2)>> : px \in Axis(size[1], b.min[1], b.max[1])}

\* The sizes the window takes: one pixel high or less, MaxWiredWin wide or
\* less.
WiredSizes == {s \in WindowSizes : s[1] <= MaxWiredWin /\ s[2] <= 1}

\* cursor_moved forwarding the cell stored before the event.
ForwardedCursorStale(old, new) == old

\* cursor_moved: the cell it passes to world.cursor_moved is
\* self.cursor_translated, read after the assignment.
ForwardedCursor(old, new) == new

\* WindowEvent::CursorMoved
WiredCursorMoved ==
    /\ app_state = "Running"
    /\ \E position \in WiredPositions(window_size, bounds) :
         LET new == BoundsCheck(TranslatePosition(bounds, position), width, height)
             pos == ForwardedCursor(cursor_translated, new)
             hist == CursorHistory(mouse_pos, pos)
         IN  /\ cursor_translated' = new
             /\ mouse_pos_prev' = hist[1]
             /\ mouse_pos' = hist[2]
             /\ event' = <<"CursorMoved", position, <<mouse_pos>>>>
             /\ calls' = PointerCalls(Draw(desc, is_painting, hist[1], hist[2],
                                           brush_size, width, height),
                                      "cursor_moved", <<pos>>)
    /\ should_update_texture' = TRUE
    /\ UNCHANGED <<desc, is_painting, brush_size, width, height, app_state,
                   configs, update_interval, last_update, paused, grid_enabled,
                   window_size, bounds, grid_vertices, grid_indices, buf,
                   clock_vars, world>>

\* WindowEvent::MouseInput
WiredMouseInput ==
    /\ app_state = "Running"
    /\ \E st \in ElementStates, button \in MouseButtons :
         LET ev == <<st, button, cursor_translated>>
             painting == IF button = "Left" THEN st = "Pressed" ELSE is_painting
         IN  /\ is_painting' = painting
             /\ event' = <<"MouseInput", ev, <<>>>>
             /\ calls' = PointerCalls(Draw(desc, painting, mouse_pos_prev, mouse_pos,
                                           brush_size, width, height),
                                      "mouse_input", ev)
    /\ should_update_texture' = TRUE
    /\ UNCHANGED <<desc, mouse_pos_prev, mouse_pos, brush_size, width, height,
                   app_state, configs, update_interval, last_update, paused,
                   grid_enabled, view_vars, buf, clock_vars, world>>

\* WindowEvent::KeyboardInput
WiredKeyboardInput ==
    /\ app_state = "Running"
    /\ \E st \in ElementStates, key \in WiredKeys :
         LET ev == <<st, key>>
             p == TogglePause(configs, paused, ev)
         IN  \E rnd \in RandomInks(desc, ev, width, height) :
               /\ paused' = p
               /\ ever_paused' = (ever_paused \/ p)
               /\ grid_enabled' = ToggleGrid(configs, grid_enabled, ev)
               /\ desc' = SelectInk(desc, ev)
               /\ brush_size' = BrushResize(desc, brush_size, ev)
               /\ event' = <<"keyboard_input", ev, <<>>>>
               /\ calls' = StepCalls(configs, p, ev)
                            \o KeyboardInputCalls(desc, ev, rnd, width, height)
    /\ should_update_texture' = TRUE
    /\ UNCHANGED <<mouse_pos_prev, mouse_pos, is_painting, width, height,
                   app_state, configs, update_interval, last_update, view_vars,
                   buf, now, last_poll, advances, burst, since_release,
                   world>>

\* App::new over a painter that has a paint function; the window is created
\* with a positive width and height.
InitWired ==
    /\ desc = [DefaultDesc EXCEPT !.paint_fn = TRUE, !.key_fill_random = None]
    /\ mouse_pos_prev = NoPos
    /\ mouse_pos = NoPos
    /\ is_painting = FALSE
    /\ brush_size = 0
    /\ width = GridW
    /\ height = GridH
    /\ app_state = "Ready"
    /\ configs = DefaultConfigs
    /\ update_interval = 1
    /\ last_update = 0
    /\ paused = FALSE
    /\ grid_enabled = FALSE
    /\ should_update_texture = FALSE
    /\ window_size \in {s \in WiredSizes : s[1] > 0 /\ s[2] > 0}
    /\ bounds = NoBounds
    /\ cursor_translated = NoPos
    /\ grid_vertices = <<>>
    /\ grid_indices = <<>>
    /\ buf = <<>>
    /\ now = 0
    /\ last_poll = 0
    /\ ever_paused = FALSE
    /\ advances = 0
    /\ burst = 0
    /\ since_release = NoRelease
    /\ world = NoWorld
    /\ event = <<"new", <<>>, <<>>>>
    /\ calls = <<>>

\* WindowEvent::Resized, the new size one of WiredSizes.
WiredResize ==
    /\ app_state = "Running"
    /\ \E new_window_size \in WiredSizes : Resize(new_window_size)
    /\ UNCHANGED <<painter_vars, width, height, app_state, configs, update_interval,
                   last_update, paused, grid_enabled, should_update_texture,
                   cursor_translated, grid_indices, buf, clock_vars, world>>

NextWired ==
    \/ AppNew
    \/ WiredResize
    \/ WiredCursorMoved
    \/ WiredMouseInput
    \/ WiredKeyboardInput

SpecWired == InitWired /\ [][NextWired]_vars

----------------------------------------------------------------------------
\* The Life example: a World of cells and cells_temp, its image in buf.  A
\* Vec index i is the sequence index i + 1.

\* Cell::color
Color(cell) == IF cell = "Alive" THEN AliveColor ELSE <<0, 0, 0, 255>>

\* World::new
WorldNew(w, h) ==
    [cells |-> [i \in 1..(w * h) |-> "Dead"],
     cells_temp |-> [i \in 1..(w * h) |-> "Dead"]]

\* calc_index
CalcIndex(w, x, y) == x + y * w

\* update_image: the cells zipped with the 4-byte chunks of the buffer.
UpdateImage(cells, b) ==
    [i \in 1..Len(b) |->
        IF (i - 1) \div 4 < Len(cells)
        THEN Color(cells[((i - 1) \div 4) + 1])[((i - 1) % 4) + 1]
        ELSE b[i]]

\* update_cell writing the pixel of a cell that stays as it is, and not the
\* pixel of one that changes.
UpdateCellUnchangedOnly(st, w, h, x, y) ==
    LET x0 == (x + w - 1) % w
        x1 == (x + 1) % w
        y0 == (y + h - 1) % h
        y1 == (y + 1) % h
        idx == CalcIndex(w, x, y)
        is_alive == st.cells[idx + 1] = "Alive"
        around == << <<x0, y0>>, <<x, y0>>, <<x1, y0>>, <<x0, y>>, <<x1, y>>,
                     <<x0, y1>>, <<x, y1>>, <<x1, y1>> >>
        n_alive == Cardinality({i \in 1..8 :
                       st.cells[CalcIndex(w, around[i][1], around[i][2]) + 1]
                           = "Alive"})
        is_alive_out == n_alive = 3 \/ (is_alive /\ n_alive = 2)
        cell_out == IF is_alive_out THEN "Alive" ELSE "Dead"
    IN  [cells |-> st.cells,
         cells_temp |-> [st.cells_temp EXCEPT ![idx + 1] = cell_out],
         buf |-> IF is_alive_out = is_alive
                 THEN CopyFromSlice(st.buf, Get(st.buf, w, h, x, y),
                                    Color(cell_out))
                 ELSE st.buf]

\* update_cell: the next state of the cell (x, y), computed from cells on
\* the torus, goes to cells_temp, and its colour to the pixel (x, y) when the
\* state changes.  st holds cells, cells_temp and the buffer of the image.
UpdateCell(st, w, h, x, y) ==
    LET x0 == (x + w - 1) % w
        x1 == (x + 1) % w
        y0 == (y + h - 1) % h
        y1 == (y + 1) % h
        idx == CalcIndex(w, x, y)
        is_alive == st.cells[idx + 1] = "Alive"
        around == << <<x0, y0>>, <<x, y0>>, <<x1, y0>>, <<x0, y>>, <<x1, y>>,
                     <<x0, y1>>, <<x, y1>>, <<x1, y1>> >>
        n_alive == Cardinality({i \in 1..8 :
                       st.cells[CalcIndex(w, around[i][1], around[i][2]) + 1]
                           = "Alive"})
        is_alive_out == n_alive = 3 \/ (is_alive /\ n_alive = 2)
        cell_out == IF is_alive_out THEN "Alive" ELSE "Dead"
    IN  [cells |-> st.cells,
         cells_temp |-> [st.cells_temp EXCEPT ![idx + 1] = cell_out],
         buf |-> IF is_alive_out # is_alive
                 THEN CopyFromSlice(st.buf, Get(st.buf, w, h, x, y),
                                    Color(cell_out))
                 ELSE st.buf]

\* The loops of World::update from the cell of index i on: rows from the
\* top, each from the left.
RECURSIVE UpdateCells(_, _, _, _)
UpdateCells(st, w, h, i) ==
    IF i >= w * h THEN st
    ELSE UpdateCells(UpdateCell(st, w, h, i % w, i \div w), w, h, i + 1)

\* World::update: every cell is updated, then cells and cells_temp are
\* swapped.
WorldUpdate(st, w, h) ==
    LET pass == UpdateCells(st, w, h, 0)
    IN  [cells |-> pass.cells_temp, cells_temp |-> pass.cells, buf |-> pass.buf]

\* The paint function of main: the cell (x, y) takes the ink and the pixel
\* (x, y) its colour.
LifePaint(st, w, h, x, y, cell) ==
    [cells |-> [st.cells EXCEPT ![CalcIndex(w, x, y) + 1] = cell],
     cells_temp |-> st.cells_temp,
     buf |-> CopyFromSlice(st.buf, Get(st.buf, w, h, x, y), Color(cell))]

\* World::new(width, height).with_painter(..), before init_image, for every
\* size of at most LifeCells cells.
InitLife ==
    /\ desc = [DefaultDesc EXCEPT !.paint_fn = TRUE, !.selected = "Alive"]
    /\ mouse_pos_prev = NoPos
    /\ mouse_pos = NoPos
    /\ is_painting = FALSE
    /\ brush_size = 0
    /\ width \in 1..LifeCells
    /\ height \in 1..LifeCells
    /\ width * height <= LifeCells
    /\ world = WorldNew(width, height)
    /\ app_state = "Ready"
    /\ configs = DefaultConfigs
    /\ update_interval = 1
    /\ last_update = 0
    /\ paused = FALSE
    /\ grid_enabled = FALSE
    /\ should_update_texture = FALSE
    /\ ViewIdle
    /\ now = 0
    /\ last_poll = 0
    /\ ever_paused = FALSE
    /\ advances = 0
    /\ burst = 0
    /\ since_release = NoRelease
    /\ event = <<"new", <<>>, <<>>>>
    /\ calls = <<>>

\* init_image
LifeInitImage ==
    /\ app_state = "Ready"
    /\ app_state' = "Running"
    /\ buf' = UpdateImage(world.cells, WorldImageNew(width, height)[1])
    /\ event' = <<"init_image", <<>>, <<>>>>
    /\ calls' = <<>>
    /\ UNCHANGED <<painter_vars, width, height, world, configs, update_interval,
                   last_update, paused, grid_enabled, should_update_texture,
                   view_vars, clock_vars>>

\* update
LifeUpdate ==
    /\ app_state = "Running"
    /\ LET st == WorldUpdate([cells |-> world.cells,
                              cells_temp |-> world.cells_temp, buf |-> buf],
                             width, height)
       IN  /\ world' = [cells |-> st.cells, cells_temp |-> st.cells_temp]
           /\ buf' = st.buf
    /\ event' = <<"update", <<>>, <<>>>>
    /\ calls' = <<>>
    /\ UNCHANGED <<painter_vars, width, height, app_state, configs,
                   update_interval, last_update, paused, grid_enabled,
                   should_update_texture, view_vars, clock_vars>>

\* A call of the paint function, on a cell of the grid with an ink of the
\* palette.
LifePaintCell ==
    /\ app_state = "Running"
    /\ \E pos \in Cells, cell \in Inks :
         LET st == LifePaint([cells |-> world.cells,
                              cells_temp |-> world.cells_temp, buf |-> buf],
                             width, height, pos[1], pos[2], cell)
         IN  /\ world' = [cells |-> st.cells, cells_temp |-> st.cells_temp]
             /\ buf' = st.buf
             /\ event' = <<"paint", <<pos[1], pos[2], cell>>, <<>>>>
    /\ calls' = <<>>
    /\ UNCHANGED <<painter_vars, width, height, app_state, configs,
                   update_interval, last_update, paused, grid_enabled,
                   should_update_texture, view_vars, clock_vars>>

NextLife ==
    \/ LifeInitImage
    \/ LifeUpdate
    \/ LifePaintCell

\* The Life example after with_painter, advanced and painted in any order.
SpecLife == InitLife /\ [][NextLife]_vars

----------------------------------------------------------------------------
\* Properties.

ExpandPress(e) ==
    /\ e[1] = "keyboard_input"
    /\ desc.key_brush_expand # None
    /\ IsPressed(e[2], desc.key_brush_expand)

ShrinkPress(e) ==
    /\ e[1] = "keyboard_input"
    /\ desc.key_brush_shrink # None
    /\ IsPressed(e[2], desc.key_brush_shrink)

\* C1: after any sequence of key events the brush radius is an integer in
\* 0..10; an expand press at 10 leaves it at 10 and a shrink press at 0
\* leaves it at 0.
C1_BrushClamped ==
    /\ [](brush_size \in 0..10)
    /\ [][/\ (ExpandPress(event') /\ brush_size = 10) => brush_size' = 10
          /\ (ShrinkPress(event') /\ brush_size = 0) => brush_size' = 0]_vars

C1_Witness ==
    /\ brush_size = 10
    /\ ExpandPress(event)

----------------------------------------------------------------------------
\* C2: a poll invokes advance at most once, and not at all when the time
\* elapsed since last_update is less than the interval, however long the
\* elapsed time is.
C2_AtMostOneAdvancePerPoll ==
    event[1] = "redraw" =>
        /\ NUpdates(calls) <= 1
        /\ event[3][1] < update_interval => NUpdates(calls) = 0

\* A poll after a stall of two intervals or more that made one advance.
C2_Witness ==
    /\ event[1] = "redraw"
    /\ event[3][1] >= 2 * update_interval
    /\ NUpdates(calls) = 1

\* C3: never paused, and polled more often than once per interval, the number
\* of advance calls made by the instant now is within one of now / interval.
C3_AdvanceCount ==
    (app_state = "Running" /\ ~ever_paused) =>
        LET q == now \div update_interval
        IN  /\ advances >= q - 1
            /\ advances <= q + 1

C3_Witness ==
    /\ ~ever_paused
    /\ update_interval = 2
    /\ now >= 2 * update_interval
    /\ advances = now \div update_interval

\* C4: timer-driven advance calls come no more often than once per interval,
\* also after a stall: no two of them are made at the same instant.
C4_NoCatchUpBurst == burst <= 1

\* C5 as stated: a press of the single-step key invokes advance exactly once
\* whether or not the scheduler is paused.
StepPress ==
    /\ event[1] = "keyboard_input"
    /\ configs.key_update_once # None
    /\ IsPressed(event[2], configs.key_update_once)

C5_StepRegardlessOfPause == StepPress => NUpdates(calls) = 1

\* C5 as amended: a press of the single-step key invokes advance exactly once
\* when the scheduler is paused once the play key of the same event has been
\* handled, and not at all when it is not paused.
C5_StepOnlyWhilePaused ==
    StepPress => NUpdates(calls) = (IF paused THEN 1 ELSE 0)

C5_Witness ==
    /\ StepPress
    /\ paused
    /\ NUpdates(calls) = 1
    /\ now - last_update < update_interval

\* C6: for a key, mouse-button or cursor event, for advance and for init,
\* the painter calls the wrapped world's method exactly once with the
\* arguments it was given, after everything the painter itself does.
C6_ForwardedOnceLast ==
    event[1] \in {"init_image", "update", "keyboard_input", "mouse_input", "cursor_moved"} =>
        /\ Len(Forwards(calls)) = 1
        /\ LET last == calls[Len(calls)]
           IN  /\ last[1] = "forward"
               /\ last[2] = event[1]
               /\ last[3] = event[2]

\* A cursor move on which the painter painted before it forwarded.
C6_Witness ==
    /\ event[1] = "cursor_moved"
    /\ Len(Paints(calls)) >= 2
    /\ Len(Forwards(calls)) = 1

\* C7: the draw pass of a mouse-button or cursor event calls the paint
\* function only if painting is active, an ink is selected and the previous
\* and the current pointer cell are known, and then it does paint.
DrawReady ==
    /\ is_painting
    /\ desc.selected # None
    /\ mouse_pos_prev # NoPos
    /\ mouse_pos # NoPos

C7_DrawOnlyWhenReady ==
    event[1] \in {"mouse_input", "cursor_moved"} =>
        /\ Paints(calls) # <<>> => (DrawReady /\ desc.paint_fn)
        /\ (DrawReady /\ desc.paint_fn) => Paints(calls) # <<>>

C7_Witness ==
    /\ event[1] = "mouse_input"
    /\ DrawReady
    /\ Paints(calls) # <<>>

\* C8: painting the point (x, y) of the image with brush radius r calls the
\* paint function once for each cell of the square of half-width r around
\* (x, y) that lies in the image and for no other cell: one cell when r = 0,
\* at most (2r+1)^2 cells, none with x' >= width or y' >= height.
Abs(n) == IF n < 0 THEN -n ELSE n

C8_BrushSquareClipped ==
    event[1] = "draw_at" =>
        LET x == event[2][1]
            y == event[2][2]
            r == brush_size
            square == {c \in Cells : Abs(c[1] - x) <= r /\ Abs(c[2] - y) <= r}
        IN  /\ \A i \in 1..Len(calls) :
                 /\ calls[i][1] = "paint"
                 /\ <<calls[i][2], calls[i][3]>> \in square
                 /\ calls[i][2] < width
                 /\ calls[i][3] < height
                 /\ calls[i][4] = event[2][3]
            /\ \A c \in square :
                 Cardinality({i \in 1..Len(calls) : <<calls[i][2], calls[i][3]>> = c}) = 1
            /\ r = 0 => Len(calls) = 1
            /\ Len(calls) <= (2 * r + 1) * (2 * r + 1)

\* The brush of radius 1 in a corner of a 3 x 3 image: 4 of its 9 cells.
C8_Witness ==
    /\ event[1] = "draw_at"
    /\ width = 3
    /\ height = 3
    /\ brush_size = 1
    /\ Len(calls) = 4

\* C9: with Alive selected and brush radius 0, a press of the primary button
\* while the pointer is over cell c sets cell c to Alive and leaves every
\* other cell as it was, whatever cursor moves came before.
C9_ClickPaintsOneCell ==
    (/\ event[1] = "mouse_input"
     /\ event[2][1] = "Pressed"
     /\ event[2][2] = "Left"
     /\ mouse_pos # NoPos
     /\ desc.paint_fn
     /\ desc.selected = "Alive"
     /\ brush_size = 0) =>
        \A g \in [Cells -> Inks] :
            ApplyPaints(g, calls) = [g EXCEPT ![mouse_pos] = "Alive"]

\* C10: a cursor move that arrives when the pointer cell is unknown (the very
\* first move, or the first after the pointer was outside the grid) sets
\* previous equal to current, and the draw pass paints only cells within the
\* brush radius of the current cell.
C10_EntryMoveDrawsNoLine ==
    (/\ event[1] = "cursor_moved"
     /\ event[3][1] = NoPos
     /\ event[2][1] # NoPos) =>
        /\ mouse_pos = event[2][1]
        /\ mouse_pos_prev = mouse_pos
        /\ \A i \in 1..Len(Paints(calls)) :
             LET c == Paints(calls)[i]
             IN  /\ Abs(c[2] - mouse_pos[1]) <= brush_size
                 /\ Abs(c[3] - mouse_pos[2]) <= brush_size

\* An entry move that painted the one cell under the pointer.
C10_Witness ==
    /\ event[1] = "cursor_moved"
    /\ event[3][1] = NoPos
    /\ event[2][1] # NoPos
    /\ brush_size = 0
    /\ Len(Paints(calls)) = 1

----------------------------------------------------------------------------
Min(a, b) == IF a < b THEN a ELSE b

Max(a, b) == IF a < b THEN b ELSE a

\* C11: for every pair of cells p and q of the grid, the line painted from p
\* to q starts at p and ends at q, each cell after the first differs from the
\* one before it by at most 1 in x and at most 1 in y and is another cell,
\* and every cell lies in the bounding box of p and q.
C11_LineConnected ==
    event[1] = "draw" =>
        LET p == event[2][1]
            q == event[2][2]
            n == Len(calls)
            At(i) == <<calls[i][2], calls[i][3]>>
        IN  /\ n >= 1
            /\ \A i \in 1..n : calls[i][1] = "paint"
            /\ At(1) = p
            /\ At(n) = q
            /\ \A i \in 1..(n - 1) :
                 /\ Abs(At(i + 1)[1] - At(i)[1]) <= 1
                 /\ Abs(At(i + 1)[2] - At(i)[2]) <= 1
                 /\ At(i + 1) # At(i)
            /\ \A i \in 1..n :
                 /\ At(i)[1] \in Min(p[1], q[1])..Max(p[1], q[1])
                 /\ At(i)[2] \in Min(p[2], q[2])..Max(p[2], q[2])

\* A line down and to the left over three columns and two rows.
C11_Witness ==
    /\ event[1] = "draw"
    /\ event[2][1] = <<3, 0>>
    /\ event[2][2] = <<0, 2>>
    /\ Len(calls) = 4

----------------------------------------------------------------------------
FillPress ==
    /\ event[1] = "keyboard_input"
    /\ desc.key_fill # None
    /\ IsPressed(event[2], desc.key_fill)

\* The paint calls among calls that paint the cell c.
PaintsOf(c) == {i \in 1..Len(calls) : calls[i][1] = "paint" /\ <<calls[i][2], calls[i][3]>> = c}

\* C12: a press of the fill key, when there is a paint function and a
\* selected ink, calls the paint function exactly once for each of the
\* width * height cells, with the selected ink; when the paint function or
\* the selected ink is absent, the press paints no cell.
C12_FillPaintsEveryCell ==
    FillPress =>
        IF desc.paint_fn /\ desc.selected # None
        THEN /\ Len(Paints(calls)) = width * height
             /\ \A c \in Cells : Cardinality(PaintsOf(c)) = 1
             /\ \A i \in 1..Len(Paints(calls)) : Paints(calls)[i][4] = desc.selected
        ELSE Paints(calls) = <<>>

C12_Witness ==
    /\ FillPress
    /\ desc.paint_fn
    /\ desc.selected = "Alive"
    /\ Len(Paints(calls)) = FillW * FillH

----------------------------------------------------------------------------
FillRandomPress ==
    /\ event[1] = "keyboard_input"
    /\ desc.key_fill_random # None
    /\ IsPressed(event[2], desc.key_fill_random)

PaletteValues == {desc.palette[k] : k \in DOMAIN desc.palette}

\* The outcomes of a press of the random fill key in this state: for each
\* draw of the random generator, the inks painted in row-major order.
RandomFillOutcomes ==
    LET ev == <<"Pressed", desc.key_fill_random>>
    IN  {[i \in 1..Len(cs) |-> cs[i][4]] :
            cs \in {FillRandom(desc, ev, rnd, width, height) :
                       rnd \in RandomInks(desc, ev, width, height)}}

\* C13: a press of the random fill key, when there is a paint function and
\* the palette is not empty, paints each of the width * height cells exactly
\* once, each with one of the palette's values, and every assignment of
\* palette values to the cells is a possible outcome; the press leaves the
\* selected ink as it was and paints whether or not an ink is selected.
\* With an empty palette or no paint function it paints nothing.
C13_FillRandomPaintsEveryCell ==
    /\ [](FillRandomPress =>
            IF desc.paint_fn /\ PaletteValues # {}
            THEN /\ Len(Paints(calls)) = width * height
                 /\ \A c \in Cells : Cardinality(PaintsOf(c)) = 1
                 /\ \A i \in 1..Len(Paints(calls)) :
                      Paints(calls)[i][4] \in PaletteValues
            ELSE Paints(calls) = <<>>)
    /\ []((desc.paint_fn /\ PaletteValues # {} /\ desc.key_fill_random # None) =>
            RandomFillOutcomes = [1..(width * height) -> PaletteValues])
    /\ [][FillRandomPress' => desc'.selected = desc.selected]_vars

\* A random fill with no ink selected that drew both inks.
C13_Witness ==
    /\ FillRandomPress
    /\ desc.selected = None
    /\ \E i, j \in 1..Len(Paints(calls)) :
         Paints(calls)[i][4] = "Dead" /\ Paints(calls)[j][4] = "Alive"

----------------------------------------------------------------------------
\* C14: a key press matching a palette entry sets the selected ink to that
\* entry's ink and the painter makes no paint call for that event; a key
\* release, or a key that is not in the palette, leaves the selected ink
\* unchanged.
C14_PaletteKeySelects ==
    [][event'[1] = "keyboard_input" =>
         LET ev == event'[2]
         IN  IF ev[1] = "Pressed" /\ ev[2] \in DOMAIN desc.palette
             THEN /\ desc'.selected = desc.palette[ev[2]]
                  /\ Paints(calls') = <<>>
             ELSE desc'.selected = desc.selected]_vars

\* A press of the key of Alive on a painter that can paint.
C14_Witness ==
    /\ event = <<"keyboard_input", <<"Pressed", "Digit1">>, <<>>>>
    /\ desc.paint_fn
    /\ desc.selected = "Alive"
    /\ Paints(calls) = <<>>

----------------------------------------------------------------------------
\* C15: is_painting is false at first, an event of the primary button sets
\* it to whether that event was a press, and every other event, those of the
\* other buttons included, leaves it as it was: after any sequence of events
\* it is true exactly when the most recent primary-button event was a press.
C15_PaintingFollowsPrimaryButton ==
    /\ is_painting = FALSE
    /\ [][IF event'[1] = "mouse_input" /\ event'[2][2] = "Left"
          THEN is_painting' = (event'[2][1] = "Pressed")
          ELSE is_painting' = is_painting]_vars

\* A release of another button while the primary button is held.
C15_Witness ==
    /\ event[1] = "mouse_input"
    /\ event[2][1] = "Released"
    /\ event[2][2] = "Right"
    /\ is_painting

----------------------------------------------------------------------------
\* C16: when the painter has no paint function, no key, mouse-button or
\* cursor event makes it call a paint function, the only way the painter
\* itself writes the image or the wrapped world; the selected ink, the brush
\* radius, is_painting and the pointer history are still updated: a palette
\* press selects, an expand or shrink press moves the radius within 0..10, a
\* primary-button event sets is_painting, a cursor move shifts the history.
C16_NoPaintFnNoPaint ==
    [][~desc.paint_fn =>
         LET e == event'
         IN  /\ Paints(calls') = <<>>
             /\ (e[1] = "keyboard_input" /\ e[2][1] = "Pressed"
                  /\ e[2][2] \in DOMAIN desc.palette) =>
                    desc'.selected = desc.palette[e[2][2]]
             /\ ExpandPress(e) => brush_size' = Min(brush_size + 1, 10)
             /\ ShrinkPress(e) => brush_size' = Max(brush_size - 1, 0)
             /\ (e[1] = "mouse_input" /\ e[2][2] = "Left") =>
                    is_painting' = (e[2][1] = "Pressed")
             /\ e[1] = "cursor_moved" =>
                    /\ mouse_pos' = e[2][1]
                    /\ mouse_pos_prev' = (IF mouse_pos = NoPos THEN e[2][1]
                                                               ELSE mouse_pos)]_vars

\* A cursor move between two cells with the button held, an ink selected
\* and a brush of radius 1, on a painter without a paint function.
C16_Witness ==
    /\ ~desc.paint_fn
    /\ event[1] = "cursor_moved"
    /\ is_painting
    /\ desc.selected = "Alive"
    /\ brush_size = 1
    /\ mouse_pos_prev # NoPos
    /\ mouse_pos # NoPos
    /\ mouse_pos # mouse_pos_prev
    /\ Paints(calls) = <<>>

----------------------------------------------------------------------------
\* The letterboxed viewport of a Gw x Gh grid in a window of size, as the
\* corners <<x0, y0>> and <<x1, y1>>: centred, of the grid's aspect, and
\* 0.999 of the largest such rectangle the window holds.
Viewport(size, Gw, Gh) ==
    LET Ww == size[1]
        Wh == size[2]
        wide == Ww * Gh > Gw * Wh
        x0 == IF wide THEN R(1000 * Gh * Ww - 999 * Gw * Wh, 2000 * Gh)
                      ELSE R(Ww, 2000)
        y0 == IF wide THEN R(Wh, 2000)
                      ELSE R(1000 * Gw * Wh - 999 * Gh * Ww, 2000 * Gw)
    IN  <<x0, y0, RSub(R(Ww, 1), x0), RSub(R(Wh, 1), y0)>>

InViewport(p, v) ==
    /\ ~RLess(p[1], v[1])
    /\ RLess(p[1], v[3])
    /\ ~RLess(p[2], v[2])
    /\ RLess(p[2], v[4])

\* C17: in a window of a positive size, a cursor position outside the
\* letterboxed viewport maps to none and a position inside it to a cell
\* (x, y) with 0 <= x < width and 0 <= y < height; the cursor cell the host
\* stores and forwards to the world is, after any sequence of cursor moves
\* and resizes, none or a cell of the grid.
C17_CursorCellInGrid ==
    /\ cursor_translated = NoPos \/ cursor_translated \in Cells
    /\ event[1] = "CursorMoved" =>
         /\ calls = << <<"forward", "cursor_moved", <<cursor_translated>>>> >>
         /\ (window_size[1] > 0 /\ window_size[2] > 0) =>
              (cursor_translated # NoPos
                 <=> InViewport(event[2], Viewport(window_size, width, height)))

\* The centre of a 3 x 3 window is in the second cell of the grid.
C17_Witness ==
    /\ event[1] = "CursorMoved"
    /\ window_size = <<3, 3>>
    /\ event[2] = <<R(3, 2), R(3, 2)>>
    /\ cursor_translated = <<1, 0>>

----------------------------------------------------------------------------
WindowCreated == \E i \in 1..Len(calls) : calls[i] = <<"create_window">>

\* C18: WorldImage::new with width 0 or height 0 fails and produces no
\* image; the image is made before the window, so that start-up over a grid
\* of width 0 or height 0 ends before a window is created, and start-up over
\* any other grid makes the image first and the window next.
C18_ZeroGridAbortsStart ==
    /\ (width = 0 \/ height = 0) => WorldImageNew(width, height) = <<>>
    /\ app_state = "Ready" => ~WindowCreated
    /\ event[1] = "resumed" =>
         IF width = 0 \/ height = 0
         THEN /\ app_state = "Aborted"
              /\ ~WindowCreated
         ELSE /\ app_state = "Running"
              /\ SubSeq(calls, 1, 2) =
                    << <<"forward", "init_image", <<>>>>, <<"create_window">> >>

C18_Witness ==
    /\ event[1] = "resumed"
    /\ width = 0
    /\ height = 2
    /\ app_state = "Aborted"
    /\ ~WindowCreated

----------------------------------------------------------------------------
\* The indices of buf that hold the cell c.
ByteRange(c) == ((c[1] + c[2] * width) * 4 + 1)..((c[1] + c[2] * width) * 4 + 4)

\* C19: get(x, y) and get_mut(x, y) return none exactly when x >= width or
\* y >= height and never fail; otherwise they return the 4 bytes at offset
\* (x + y * width) * 4 of the buffer, whose length is width * height * 4 in
\* every state; the byte ranges of two cells of the image do not meet, and a
\* write through get_mut changes no byte outside the range of its cell.
C19_CellSlices ==
    /\ [](Len(buf) = width * height * 4)
    /\ [](event[1] \in {"get", "get_mut"} =>
            LET x == event[2][1]
                y == event[2][2]
                r == calls[1][2]
            IN  /\ r.kind # "Panic"
                /\ r.kind = "None" <=> (x >= width \/ y >= height)
                /\ r.kind = "Some" =>
                     /\ r.offset = (x + y * width) * 4
                     /\ Len(r.bytes) = 4
                     /\ r.offset + 4 <= Len(buf))
    /\ [](\A c1 \in Cells, c2 \in Cells :
            c1 # c2 => ByteRange(c1) \cap ByteRange(c2) = {})
    /\ [][/\ width' = width
          /\ height' = height
          /\ event'[1] = "get" => buf' = buf
          /\ event'[1] = "get_mut" =>
               LET c == event'[2]
               IN  \A i \in 1..Len(buf) :
                     (c \notin Cells \/ i \notin ByteRange(c)) => buf'[i] = buf[i]]_vars

\* A write to the last cell of a 2 x 2 image whose other cells stay zero.
C19_Witness ==
    /\ event = <<"get_mut", <<1, 1>>, <<>>>>
    /\ width = 2
    /\ height = 2
    /\ calls[1][2].offset = 12
    /\ buf = [i \in 1..16 |-> IF i > 12 THEN 255 ELSE 0]

----------------------------------------------------------------------------
Copies(cs) == SelectSeq(cs, LAMBDA c : c[1] = "copy_vertices")

\* The four vertices of bar k of grid_vertices, k counted from 0.
Bar(k) == SubSeq(grid_vertices, 4 * k + 1, 4 * k + 4)

BarStrength(k, s) == \A i \in 1..4 : Bar(k)[i].strength = s

BarXs(k) == {Bar(k)[i].position[1] : i \in 1..4}

BarYs(k) == {Bar(k)[i].position[2] : i \in 1..4}

\* The half-extents of the viewport in normalized space.
ViewX ==
    IF window_size[1] * height > width * window_size[2]
    THEN R(999 * width * window_size[2], 1000 * height * window_size[1])
    ELSE R(999, 1000)

ViewY ==
    IF window_size[1] * height > width * window_size[2]
    THEN R(999, 1000)
    ELSE R(999 * height * window_size[1], 1000 * width * window_size[2])

\* Bar k is the vertical line at lx: half a pixel to each side of lx, from
\* the bottom of the viewport to its top.
VerticalAt(k, lx) ==
    /\ BarXs(k) = {RSub(lx, R(1, window_size[1])), RAdd(lx, R(1, window_size[1]))}
    /\ BarYs(k) = {<<-ViewY[1], ViewY[2]>>, ViewY}

HorizontalAt(k, ly) ==
    /\ BarXs(k) = {<<-ViewX[1], ViewX[2]>>, ViewX}
    /\ BarYs(k) = {RSub(ly, R(1, window_size[2])), RAdd(ly, R(1, window_size[2]))}

\* The line i of n between -e and e.
LineAt(i, n, e) == RSub(RMul(e, R(2 * i, n)), e)

\* C20: for a grid of width x height cells grid_vertices holds
\* width + height + 2 bars of 4 vertices; a regeneration writes each bar
\* exactly once; bars 0 and 1 are the left and right border, bars 2 and 3 the
\* two horizontal borders, all of strength 1; the bars after them are the
\* width - 1 interior vertical lines and then the height - 1 interior
\* horizontal lines, all of strength 1/2.
C20_GridBars ==
    app_state = "Running" =>
        /\ Len(grid_vertices) = (width + height + 2) * 4
        /\ Copies(calls) # <<>> =>
             /\ Len(Copies(calls)) = width + height + 2
             /\ \A k \in 0..(width + height + 1) :
                  Cardinality({i \in 1..Len(calls) :
                      calls[i][1] = "copy_vertices" /\ calls[i][2] = k}) = 1
        /\ (window_size[1] > 0 /\ window_size[2] > 0) =>
             /\ \A k \in 0..3 : BarStrength(k, One)
             /\ VerticalAt(0, LineAt(0, width, ViewX))
             /\ VerticalAt(1, LineAt(width, width, ViewX))
             /\ HorizontalAt(2, LineAt(0, height, ViewY))
             /\ HorizontalAt(3, LineAt(height, height, ViewY))
             /\ \A x \in 1..(width - 1) :
                  /\ BarStrength(x + 3, R(1, 2))
                  /\ VerticalAt(x + 3, LineAt(x, width, ViewX))
             /\ \A y \in 1..(height - 1) :
                  /\ BarStrength(y + width + 2, R(1, 2))
                  /\ HorizontalAt(y + width + 2, LineAt(y, height, ViewY))

\* A 3 x 3 grid regenerated on a resize: 8 bars, 4 of them interior.
C20_Witness ==
    /\ event[1] = "Resized"
    /\ width = 3
    /\ height = 3
    /\ Len(Copies(calls)) = 8
    /\ BarStrength(7, R(1, 2))

----------------------------------------------------------------------------
\* C21: the index sequence of the overlay has exactly 6 * (width + height + 2)
\* entries, bar k contributing 4k, 4k+1, 4k+2, 4k+2, 4k+1, 4k+3 in this
\* order, so that every index is below the number of vertices,
\* 4 * (width + height + 2).
C21_GridIndices ==
    app_state = "Running" =>
        LET n == width + height + 2
        IN  /\ Len(grid_indices) = 6 * n
            /\ \A k \in 0..(n - 1) :
                 SubSeq(grid_indices, 6 * k + 1, 6 * k + 6)
                   = <<4 * k, 4 * k + 1, 4 * k + 2,
                       4 * k + 2, 4 * k + 1, 4 * k + 3>>
            /\ Len(grid_vertices) = 4 * n
            /\ \A j \in 1..Len(grid_indices) :
                 grid_indices[j] < Len(grid_vertices)

\* The index buffer of a 2 x 1 world: five bars, the last one on the
\* vertices 16..19.
C21_Witness ==
    /\ app_state = "Running"
    /\ width = 2
    /\ height = 1
    /\ Len(grid_indices) = 30
    /\ grid_indices[30] = 19

----------------------------------------------------------------------------
GridPress(e) ==
    /\ e[1] = "keyboard_input"
    /\ configs.key_grid # None
    /\ IsPressed(e[2], configs.key_grid)

DrawRanges(cs) == SelectSeq(cs, LAMBDA c : c[1] = "draw_indexed")

\* C22: the overlay flag starts disabled and flips on each press of the grid
\* key, and on no other key event; a redraw draws the first 24 indices when
\* the flag is disabled and the whole index buffer when it is enabled; the
\* index buffer never has fewer than 24 entries; a key event leaves the
\* overlay's vertices, its indices and the transform unchanged.
C22_GridToggle ==
    /\ [](app_state = "Ready" => ~grid_enabled)
    /\ [](app_state = "Running" => 24 <= Len(grid_indices))
    /\ [][event'[1] = "keyboard_input" =>
            /\ grid_enabled' = (IF GridPress(event') THEN ~grid_enabled
                                                     ELSE grid_enabled)
            /\ UNCHANGED <<grid_vertices, grid_indices, bounds>>]_vars
    /\ [][(event'[1] = "redraw" /\ app_state' = "Running") =>
            DrawRanges(calls')
              = << <<"draw_indexed",
                     IF grid_enabled THEN <<0, Len(grid_indices)>>
                                     ELSE <<0, 24>> >> >>]_vars

\* A redraw with the overlay enabled, over a world that has more bars than
\* the four of the border.
C22_Witness ==
    /\ event[1] = "redraw"
    /\ grid_enabled
    /\ Len(grid_indices) > 24
    /\ DrawRanges(calls) = << <<"draw_indexed", <<0, Len(grid_indices)>>>> >>

----------------------------------------------------------------------------
PositiveSize(s) == s[1] > 0 /\ s[2] > 0

\* The transform of the width x height grid in a window of size: the origin
\* and the far corner of the letterboxed viewport, and the pixels per cell.
TransformOf(size) ==
    LET v == Viewport(size, width, height)
    IN  [min |-> <<v[1], v[2]>>,
         max |-> <<v[3], v[4]>>,
         cell_scale |-> <<RDiv(RSub(v[3], v[1]), R(width, 1)),
                          RDiv(RSub(v[4], v[2]), R(height, 1))>>]

\* The overlay vertices of the width x height grid in a window of size.
VerticesOf(size) ==
    CopyAll(NewGridVertices(width, height),
            GridCopies(WorldAspect(width, height), size, width, height))

\* C23 as stated: the transform is recomputed on every resize event.
C23_RecomputedOnEveryResize ==
    [][event'[1] = "Resized" => Copies(calls') # <<>>]_vars

\* C23: after any sequence of resize events, whenever the window's width and
\* height are not zero, the stored transform and the overlay vertices are the
\* ones computed from the window's current size; a resize event stores the
\* new size, and it recomputes the transform and the vertices exactly when
\* the new size differs from the stored one and has no zero side, leaving
\* them as they are otherwise.
C23_TransformFollowsWindow ==
    /\ []((app_state = "Running" /\ PositiveSize(window_size)) =>
            /\ bounds = TransformOf(window_size)
            /\ grid_vertices = VerticesOf(window_size))
    /\ [][event'[1] = "Resized" =>
            /\ window_size' = event'[2]
            /\ Copies(calls') # <<>>
                 <=> (event'[2] # window_size /\ PositiveSize(event'[2]))
            /\ Copies(calls') = <<>> => UNCHANGED <<bounds, grid_vertices>>]_vars

\* A resize that regenerates the transform and the overlay of a 2 x 3 grid
\* for a window of 3 x 1 pixels.
C23_Witness ==
    /\ event[1] = "Resized"
    /\ Copies(calls) # <<>>
    /\ window_size = <<3, 1>>
    /\ bounds = TransformOf(<<3, 1>>)
    /\ width = 2
    /\ height = 3

----------------------------------------------------------------------------
\* The midpoint of the two coordinates of a bar on one axis.
Centre(S) ==
    LET a == CHOOSE a \in S : TRUE
        b == CHOOSE b \in S : S = {a, b}
    IN  RDiv(RAdd(a, b), R(2, 1))

\* The window pixel of a normalized coordinate: x grows to the right from
\* -1 to 1 over the window's width, y grows upwards over its height.
PixelX(lx) == RMul(RDiv(RAdd(lx, One), R(2, 1)), R(window_size[1], 1))

PixelY(ly) == RMul(RDiv(RSub(One, ly), R(2, 1)), R(window_size[2], 1))

RTimes(i, a) == RMul(R(i, 1), a)

\* C24: in a window of a positive size the four border bars are centred on
\* the edges of the viewport, x = -X, x = X, y = -Y and y = Y, where X and Y
\* are the half-extents from which the pixel bounds of the cell mapping are
\* computed, so that in window pixels they lie on bounds.min and bounds.max
\* and span the viewport; interior bar i lies i / width (i / height) of the
\* way between the two borders, on the boundary between two columns (rows)
\* of cells of the mapping.
C24_BarsOnViewportEdges ==
    (app_state = "Running" /\ PositiveSize(window_size)) =>
        LET e == HalfExtents(WorldAspect(width, height), window_size)
            X == e[1]
            Y == e[2]
        IN  /\ Centre(BarXs(0)) = RSub(Zero, X)
            /\ Centre(BarXs(1)) = X
            /\ Centre(BarYs(2)) = RSub(Zero, Y)
            /\ Centre(BarYs(3)) = Y
            /\ PixelX(Centre(BarXs(0))) = bounds.min[1]
            /\ PixelX(Centre(BarXs(1))) = bounds.max[1]
            /\ PixelY(Centre(BarYs(2))) = bounds.max[2]
            /\ PixelY(Centre(BarYs(3))) = bounds.min[2]
            /\ \A k \in 0..1 :
                 {PixelY(y) : y \in BarYs(k)} = {bounds.min[2], bounds.max[2]}
            /\ \A k \in 2..3 :
                 {PixelX(x) : x \in BarXs(k)} = {bounds.min[1], bounds.max[1]}
            /\ \A i \in 1..(width - 1) :
                 /\ Centre(BarXs(i + 3))
                      = RAdd(RSub(Zero, X), RMul(R(i, width), RMul(R(2, 1), X)))
                 /\ PixelX(Centre(BarXs(i + 3)))
                      = RAdd(bounds.min[1], RTimes(i, bounds.cell_scale[1]))
            /\ \A j \in 1..(height - 1) :
                 /\ Centre(BarYs(j + width + 2))
                      = RAdd(RSub(Zero, Y), RMul(R(j, height), RMul(R(2, 1), Y)))
                 /\ PixelY(Centre(BarYs(j + width + 2)))
                      = RSub(bounds.max[2], RTimes(j, bounds.cell_scale[2]))

\* A 3 x 2 grid in a window of 2 x 3 pixels: the first interior vertical bar
\* lies one cell to the right of the viewport's left edge.
C24_Witness ==
    /\ app_state = "Running"
    /\ width = 3
    /\ height = 2
    /\ window_size = <<2, 3>>
    /\ PixelX(Centre(BarXs(4))) = RAdd(bounds.min[1], bounds.cell_scale[1])
    /\ PixelX(Centre(BarXs(0))) = bounds.min[1]

----------------------------------------------------------------------------
\* A redraw on which the surface gave no frame.
FrameUnavailable(e) == e[1] = "redraw" /\ ~e[3][2]

\* C25: when on a redraw request the surface gives no frame, the redraw is
\* skipped without a crash: the host is still running, so that later events
\* are handled, and the painter's state, the image, the pause flag and the
\* update interval are the ones from before the redraw.
C25_FrameUnavailableSkipsRedraw ==
    [][FrameUnavailable(event') =>
         /\ app_state' = "Running"
         /\ UNCHANGED <<painter_vars, buf, paused, update_interval>>]_vars

----------------------------------------------------------------------------
\* The results keyboard_input can have in this state for the key event ev:
\* the descriptor, the brush radius and the calls made, one result for each
\* draw of the random generator.
KeyOutcomes(ev) ==
    {<<SelectInk(desc, ev), BrushResize(desc, brush_size, ev),
       KeyboardInputCalls(desc, ev, rnd, width, height)>> :
        rnd \in RandomInks(desc, ev, width, height)}

\* ev is a press of the random fill key that fills the grid.
RandomFillOf(ev) ==
    /\ desc.key_fill_random # None
    /\ IsPressed(ev, desc.key_fill_random)
    /\ desc.paint_fn
    /\ PaletteValues # {}

----------------------------------------------------------------------------
InitCalls(cs) ==
    SelectSeq(cs, LAMBDA c : c[1] = "forward" /\ c[2] = "init_image")

\* The step is the handling of a host event.
Handled == event' # event \/ calls' # calls

\* C27: over any sequence of resumed notifications and window events the
\* world's init_image is called exactly once and before every other call on
\* the world: as long as the host has not started no call is made on the
\* world and no step is counted; the event that makes the first call calls
\* init_image, once and first, and starts the host; from then on no event
\* calls init_image again and the host never returns to the state before
\* the start.
C27_InitOnce ==
    /\ [](app_state = "Ready" => (calls = <<>> /\ advances = 0))
    /\ [][(app_state = "Ready" /\ Handled /\ calls' # <<>>) =>
            /\ Head(calls') = <<"forward", "init_image", <<>>>>
            /\ Len(InitCalls(calls')) = 1
            /\ Forwards(calls') = InitCalls(calls')
            /\ app_state' # "Ready"]_vars
    /\ [][app_state # "Ready" =>
            /\ app_state' # "Ready"
            /\ Handled => InitCalls(calls') = <<>>]_vars

\* A second resumed notification after the world has advanced: it ends the
\* program without a call on the world.
C27_Witness ==
    /\ event = <<"resumed", <<>>, <<"Running">>>>
    /\ app_state = "Aborted"
    /\ calls = <<>>
    /\ advances > 0

----------------------------------------------------------------------------
Uploads(cs) == SelectSeq(cs, LAMBDA c : c[1] = "update_wgpu_texture")

\* The positions in cs of the calls that satisfy Test.
Where(cs, Test(_)) == {i \in 1..Len(cs) : Test(cs[i])}

IsUpdate(c) == c[1] = "forward" /\ c[2] = "update"

IsUpload(c) == c[1] = "update_wgpu_texture"

IsPresent(c) == c[1] = "present"

InputEvents == {"keyboard_input", "MouseInput", "CursorMoved"}

\* C28 as stated: the image is copied to the texture only inside render.
C28_UploadOnlyInRender ==
    Uploads(calls) # <<>> => event[1] = "redraw"

\* C28: the image is copied to the texture when the texture is created at
\* the start and, from then on, only inside render, at most once on a redraw,
\* after the world's update of that poll and before the frame is presented;
\* every key, mouse button and cursor event marks the image as changed, the
\* mark stays until a redraw, and a redraw that finds the mark, or whose
\* poll advanced the world, copies the image to the texture.
C28_UploadBeforePresent ==
    /\ [](Uploads(calls) # <<>> => event[1] \in {"redraw", "resumed"})
    /\ [](event[1] = "redraw" =>
            /\ Len(Uploads(calls)) <= 1
            /\ \A i \in Where(calls, IsUpdate), j \in Where(calls, IsUpload) :
                 i < j
            /\ \A j \in Where(calls, IsUpload), k \in Where(calls, IsPresent) :
                 j < k
            /\ Where(calls, IsUpdate) # {} => Where(calls, IsUpload) # {})
    /\ [](event[1] \in InputEvents => should_update_texture)
    /\ [][(should_update_texture /\ event'[1] # "redraw") =>
            should_update_texture']_vars
    /\ [][(should_update_texture /\ event'[1] = "redraw") =>
            Where(calls', IsUpload) # {}]_vars

\* A redraw whose poll did not advance the world and that copies the image
\* marked by a cursor event before it presents the frame.
C28_Witness ==
    /\ event[1] = "redraw"
    /\ Where(calls, IsUpdate) = {}
    /\ calls # <<>>
    /\ calls[1] = <<"update_wgpu_texture">>
    /\ calls[Len(calls)] = <<"present">>
    /\ cursor_translated # NoPos

----------------------------------------------------------------------------
\* The step is a poll: a redraw is handled, at the instant now.
Poll == event'[1] = "redraw" /\ now' = now

\* C29: a poll at which at least update_interval has elapsed since
\* last_update moves last_update forward by exactly update_interval, not to
\* the instant of the poll, whether or not the scheduler is paused; a poll
\* at which less has elapsed leaves last_update as it is; so last_update is
\* never later than the instant of the poll.
C29_LastUpdateAdvance ==
    /\ [][Poll =>
            last_update' = IF now - last_update >= update_interval
                           THEN last_update + update_interval
                           ELSE last_update]_vars
    /\ [](last_update <= now)

\* A poll of a paused scheduler two intervals or more after last_update:
\* last_update has moved and is still behind the instant of the poll.
C29_Witness ==
    /\ event[1] = "redraw"
    /\ paused
    /\ event[3][1] >= 2 * update_interval
    /\ last_update < now
    /\ last_update > 0

----------------------------------------------------------------------------
PlayPress(e) ==
    /\ e[1] = "keyboard_input"
    /\ configs.key_play # None
    /\ IsPressed(e[2], configs.key_play)

\* C30: the pause flag is false at the start, a press of the play key flips
\* it and no other event changes it, a release of the play key included;
\* a poll of a paused scheduler calls the world's update not at all, and a
\* poll of a scheduler that is not paused calls it exactly once when at
\* least update_interval has elapsed since last_update.
C30_PauseGatesAdvance ==
    /\ [](app_state = "Ready" => ~paused)
    /\ [][paused' = (IF PlayPress(event') /\ now' = now THEN ~paused
                                                       ELSE paused)]_vars
    /\ [][Poll =>
            NUpdates(calls') = IF ~paused /\ now - last_update >= update_interval
                               THEN 1
                               ELSE 0]_vars

\* A poll of a paused scheduler at which an update was due: no call.
C30_Witness ==
    /\ event[1] = "redraw"
    /\ paused
    /\ event[3][1] >= update_interval
    /\ NUpdates(calls) = 0
    /\ advances > 0

----------------------------------------------------------------------------
\* C31: after any sequence of cursor, mouse button, key and resize events
\* delivered through the host, the painter's current pointer cell is the
\* cursor cell the host stores, and whenever the painter's current pointer
\* cell is known its previous pointer cell is known too.
C31_PointerIsHostCursor ==
    /\ mouse_pos = cursor_translated
    /\ mouse_pos # NoPos => mouse_pos_prev # NoPos

\* The pointer over cell (1, 0) after it was over cell (0, 0), in a window
\* resized since the start.
C31_Witness ==
    /\ event[1] = "CursorMoved"
    /\ mouse_pos = <<1, 0>>
    /\ mouse_pos_prev = <<0, 0>>
    /\ cursor_translated = <<1, 0>>
    /\ is_painting
    /\ window_size = <<2, 1>>
    /\ bounds.cell_scale # <<One, One>>

----------------------------------------------------------------------------
\* The cells the calls cs paint.
PaintedCells(cs) == {<<Paints(cs)[i][2], Paints(cs)[i][3]>> : i \in 1..Len(Paints(cs))}

\* C32: a cursor move to none paints nothing; and while painting is active,
\* the move by which the pointer re-enters the grid, at a cell other than
\* the one where it left, paints the cells of the grid within the brush
\* radius of the cell of re-entry, each once, and no other cell: no line is
\* painted from the cell where the pointer left.
C32_NoLineAcrossLeave ==
    /\ [][(event'[1] = "cursor_moved" /\ event'[2][1] = NoPos) =>
            Paints(calls') = <<>>]_vars
    /\ [][(/\ event'[1] = "cursor_moved"
           /\ is_painting
           /\ mouse_pos = NoPos
           /\ mouse_pos_prev # NoPos
           /\ event'[2][1] # NoPos
           /\ event'[2][1] # mouse_pos_prev) =>
            LET r == event'[2][1]
            IN  /\ PaintedCells(calls')
                     = IF desc.paint_fn /\ desc.selected # None
                       THEN {c \in Cells : /\ Abs(c[1] - r[1]) <= brush_size
                                           /\ Abs(c[2] - r[2]) <= brush_size}
                       ELSE {}
                /\ Len(Paints(calls')) = Cardinality(PaintedCells(calls'))
                /\ mouse_pos_prev' = r]_vars

\* The pointer back in the grid at cell (1, 0) while painting with a brush of
\* radius 0: the one cell of re-entry is painted.
C32_Witness ==
    /\ event = <<"cursor_moved", <<<<1, 0>>>>, <<NoPos>>>>
    /\ is_painting
    /\ brush_size = 0
    /\ Paints(calls) = << <<"paint", 1, 0, "Alive">> >>
    /\ mouse_pos_prev = <<1, 0>>

\* C33: after the play key releases a pause during which the polls arrived
\* more often than once per update_interval, no backlog is replayed: the
\* timer-driven advances made in the duration D since the release number at
\* most floor(D / update_interval) + 1.
C33_NoBacklogAfterRelease ==
    Len(since_release) = 2 =>
        since_release[2] <= ((now - since_release[1]) \div update_interval) + 1

\* C34: in the Life example, after init_image and any sequence of updates and
\* calls of the paint function, the pixel (x, y) of the image holds the colour
\* of the cell (x, y) of the current generation.
C34_ImageShowsCells ==
    app_state = "Running" =>
        \A pos \in Cells :
            Get(buf, width, height, pos[1], pos[2]).bytes
                = Color(world.cells[CalcIndex(width, pos[1], pos[2]) + 1])

\* An update of a world of more than one row and column that changed one
\* cell, whose pixel it wrote, and kept another, whose pixel it did not write.
C34_Witness ==
    /\ event[1] = "update"
    /\ width > 1
    /\ height > 1
    /\ \E i \in 1..Len(world.cells) : world.cells[i] # world.cells_temp[i]
    /\ \E i \in 1..Len(world.cells) : world.cells[i] = world.cells_temp[i]

====
